---- MODULE Spec2Model ----
(***************************************************************************)
(* Model of the jocker process supervisor: the process table of the store, *)
(* the scheduler's task list, and the start / stop / refresh operations    *)
(* at the granularity of their individual store writes and scheduler calls *)
(* (Spec); the process filter behind ps (SpecPs); the SQLite store at the  *)
(* granularity of its SQL statements (SpecStore); the resolution of stack   *)
(* inheritance (SpecResolver); State::refresh write by write               *)
(* (SpecRefresh); the pueue client and its daemon (SpecPueue, and         *)
(* SpecPueueFair under fair scheduling); the fan-in of logs (SpecLogs,     *)
(* SpecLogsFair); the functions State::new, envsubst and the state of a    *)
(* process for the state of its task (SpecPure); and the mutexes of the    *)
(* store and of the current stack (SpecLocks).                             *)
(***************************************************************************)
EXTENDS Integers, Sequences, FiniteSets, TLC

\* ------------------------------------------------------------------ bounds
MaxTasks == 3     \* tasks the scheduler group may hold (task ids 1..MaxTasks)
MaxNames == 2     \* length of the name list given to start / stop

\* --------------------------------------------------------------- constants
NoPid == 0                                \* Option<Pid>::None
NoStack == "none"                         \* Option<String>::None
NoDate == 0                               \* a NULL DATETIME of metadata
ProcessOrder == <<"eris", "harmonia">>    \* rows of `process`, ORDER BY name
ProcessNames == {ProcessOrder[i] : i \in 1..Len(ProcessOrder)}
ArgNames == ProcessNames \cup {"ghost"}   \* names a user may type
ProcessState == {"Stopped", "Building", "Running", "Healthy"}
\* the stacks of the configuration: direct and resolved inherited processes
ConfigStacks ==
  [base |-> [processes |-> {"eris"}, inherited_processes |-> {}],
   full |-> [processes |-> {"harmonia"}, inherited_processes |-> {"eris"}],
   void |-> [processes |-> {}, inherited_processes |-> {}]]
StackNames == DOMAIN ConfigStacks
\* stack name -> rows of rel_stack_process: State::set_stacks inserts the
\* direct and the inherited processes of a stack into that one relation
Stack ==
  [s \in StackNames |->
     ConfigStacks[s].processes \cup ConfigStacks[s].inherited_processes]

VARIABLES
  processes,      \* store: name -> [binary, state, pid]
  tasks,          \* scheduler group: task id -> [label, status]
  current_stack,  \* State.current_stack
  op,             \* operation in progress or last completed
  pc,             \* position inside op
  selected,       \* Vec<Process> returned by filter_processes (a snapshot)
  idx,            \* loop index into selected
  kill,           \* StopArgs.kill
  stop_pc,        \* position of each spawned stop task
  user_pids,      \* set of live handles read by refresh
  refresh_config, \* hard || needs_to_refresh_config() of the current refresh
  result,         \* Result of the last completed operation
  build,          \* outcome of Cargo::build in the current start
  attempted,      \* names for which a scheduler call was made in this op
  failed,         \* names whose scheduler call returned Err in this op
  handle,         \* name -> task handle returned by scheduler.start in this op
  pre,            \* process table when the current op began
  prev,           \* summary of the previously completed op
  args,           \* StartArgs.processes / StopArgs.processes of the op
  ps,             \* the last Ps::run: its arguments and what it returned
  db,             \* the SQLite database: one field per table
  call,           \* the Database call in progress or last completed
  resolver,       \* State::recurse_inherited_processes: input, stack, result
  refresh,        \* State::refresh on the database: position, input, result
  pueue,          \* the pueue daemon's tasks and the client call in progress
  logs,           \* Logs::run: fetchers, the channel and what was printed
  pure,           \* a pure function applied to an input: input and output
  locks           \* the store and current-stack mutexes and the tasks using them

\* the variables of the lifecycle operations
lifecycle_vars == <<tasks, op, pc, selected, idx, kill, stop_pc, user_pids,
                    refresh_config, result, build, attempted, failed, handle,
                    pre, prev, args>>
\* the variables of the other specifications
aux_vars == <<ps, db, call, resolver, refresh, pueue, logs, pure, locks>>

vars == <<processes, tasks, current_stack, op, pc, selected, idx, kill,
          stop_pc, user_pids, refresh_config, result, build, attempted, failed,
          handle, pre, prev, args, ps, db, call, resolver, refresh, pueue,
          logs, pure, locks>>

\* ------------------------------------------------------------ pure helpers
Range(s) == {s[i] : i \in 1..Len(s)}

RECURSIVE SelectSeqBy(_, _)
SelectSeqBy(order, keep) ==
  IF order = <<>> THEN <<>>
  ELSE IF Head(order) \in keep
       THEN <<Head(order)>> \o SelectSeqBy(Tail(order), keep)
       ELSE SelectSeqBy(Tail(order), keep)

\* Process::new / rows of the process table as Process values
ProcessOf(table, name) ==
  [name |-> name, binary |-> table[name].binary,
   state |-> table[name].state, pid |-> table[name].pid]

\* Database::get_processes: all rows, ordered by name
get_processes(table) ==
  [i \in 1..Len(ProcessOrder) |-> ProcessOf(table, ProcessOrder[i])]

\* State::get_stack(..).processes
get_stack(stack) == Stack[stack]

\* State::filter_processes
filter_processes(table, stack, process_names) ==
  LET expected_set ==
        IF process_names # <<>> THEN Range(process_names)
        ELSE IF stack # NoStack THEN get_stack(stack)
        ELSE {}
      expected_len ==
        IF process_names # <<>> THEN Len(process_names)
        ELSE Cardinality(expected_set)
      found == SelectSeqBy(ProcessOrder, expected_set)
      procs == [i \in 1..Len(found) |-> ProcessOf(table, found[i])]
  IN IF expected_len = 0
       THEN [ok |-> TRUE, procs |-> get_processes(table), missing |-> {}]
     ELSE IF expected_len # Len(procs)
       THEN [ok |-> FALSE, procs |-> <<>>,
             missing |-> Range(process_names) \ Range(found)]
     ELSE [ok |-> TRUE, procs |-> procs, missing |-> {}]

\* variant: the UPDATE lacks its WHERE clause
set_state_all_rows(table, name, state) ==
  [n \in DOMAIN table |-> [table[n] EXCEPT !.state = state]]

\* Database::set_process_state: UPDATE process SET state WHERE name
set_state(table, name, state) ==
  [table EXCEPT ![name].state = state]

\* variant: a None pid is not written
set_pid_skip_none(table, name, pid) ==
  IF pid = NoPid THEN table ELSE [table EXCEPT ![name].pid = pid]

\* variant: the UPDATE lacks its WHERE clause
set_pid_all_rows(table, name, pid) ==
  [n \in DOMAIN table |-> [table[n] EXCEPT !.pid = pid]]

\* Database::set_process_pid: UPDATE process SET pid WHERE name
set_pid(table, name, pid) ==
  [table EXCEPT ![name].pid = pid]

\* --------------------------------------------------------------- scheduler
TaskIds == 1..Len(tasks)
Live == {t \in TaskIds : tasks[t].status = "Running"}

\* ------------------------------------------------------------------- Init
NoHandle == [n \in ProcessNames |-> NoPid]

\* the process table after the first refresh: Process::new for every binary
InitProcesses ==
  [n \in ProcessNames |-> [binary |-> n, state |-> "Stopped", pid |-> NoPid]]
NoStopPc == [n \in ProcessNames |-> "none"]
NoPrev == [clean |-> FALSE, names |-> {}, pre |-> InitProcesses]

\* no Ps::run yet
NoPs ==
  [called |-> FALSE, stack |-> NoStack, process_names |-> <<>>,
   out |-> [ok |-> TRUE, procs |-> <<>>, missing |-> {}]]

\* Database::init: every table created, no row
EmptyDb ==
  [process |-> <<>>, binary |-> <<>>, stack |-> {}, rel_stack_process |-> {},
   rel_stack_inherited_process |-> {}, default_stack |-> NoStack,
   binaries_updated_at |-> NoDate, config_updated_at |-> NoDate]

\* no Database call yet
NoCall ==
  [op |-> "none", pc |-> "done", arg |-> <<>>, i |-> 0, todo |-> {},
   pre |-> EmptyDb, res |-> "none", missing |-> {}]

\* no resolution yet
NoResolver ==
  [stacks |-> <<>>, root |-> NoStack, frames |-> <<>>, browsed_stacks |-> {},
   inherited_processes |-> {}, result |-> "idle"]

\* ConfigFile::load returns None: there is no jocker.yml
NoConfigFile ==
  [exists |-> FALSE, default_stack |-> NoStack, stacks |-> <<>>,
   processes |-> <<>>]

\* no completed refresh(hard = true) to compare the next one with
NoLast == [some |-> FALSE, db |-> EmptyDb]

\* no State::refresh on the database yet
NoRefresh ==
  [pc |-> "done", hard |-> FALSE, needs_binaries |-> FALSE,
   needs_config |-> FALSE, res |-> "none",
   missing |-> {}, config |-> NoConfigFile, user_pids |-> {}, now |-> 0,
   todo |-> {}, pre |-> EmptyDb, last |-> NoLast, first |-> NoLast]

\* a caller of the scheduler client that is in no call
NoPueueCall ==
  [op |-> "none", pc |-> "done", task |-> 0, res |-> "none", seen |-> "none",
   closed |-> FALSE]

\* Pueue::new: the group holds no task, the client's mutex is free (0)
NoPueue == [tasks |-> <<>>, lock |-> 0, calls |-> <<>>]

\* no Logs::exec yet
NoLogs ==
  [pc |-> "idle", follow |-> FALSE, tail |-> FALSE, selected |-> {},
   lock |-> NoStack, chan |-> <<>>, printed |-> <<>>, fetch |-> <<>>,
   task |-> <<>>, caller |-> "exec", stop |-> "none"]

\* no function applied yet
NoPure == [fn |-> "none"]

\* no task uses the mutexes yet
NoLocks == [holder |-> <<>>, task |-> <<>>]

\* refresh on the database, scheduler client, logs and functions at rest
LaterIdle ==
  /\ refresh = NoRefresh
  /\ pueue = NoPueue
  /\ logs = NoLogs
  /\ pure = NoPure
  /\ locks = NoLocks

\* the other specifications at rest
AuxIdle ==
  /\ ps = NoPs
  /\ db = EmptyDb
  /\ call = NoCall
  /\ resolver = NoResolver
  /\ LaterIdle

\* the lifecycle operations at rest
LifecycleIdle ==
  /\ tasks = <<>>
  /\ op = "idle"
  /\ pc = "done"
  /\ selected = <<>>
  /\ idx = 0
  /\ kill = FALSE
  /\ stop_pc = NoStopPc
  /\ user_pids = {}
  /\ refresh_config = FALSE
  /\ result = "none"
  /\ build = "none"
  /\ attempted = {}
  /\ failed = {}
  /\ handle = NoHandle
  /\ pre = InitProcesses
  /\ prev = NoPrev
  /\ args = <<>>

Init ==
  /\ AuxIdle
  /\ processes = InitProcesses
  /\ tasks = <<>>
  /\ current_stack = NoStack
  /\ op = "idle"
  /\ pc = "done"
  /\ selected = <<>>
  /\ idx = 0
  /\ kill = FALSE
  /\ stop_pc = NoStopPc
  /\ user_pids = {}
  /\ refresh_config = FALSE
  /\ result = "none"
  /\ build = "none"
  /\ attempted = {}
  /\ failed = {}
  /\ handle = NoHandle
  /\ pre = processes
  /\ prev = NoPrev
  /\ args = <<>>

\* ------------------------------------------------------- operation framing
Names(procs) == {procs[i].name : i \in 1..Len(procs)}

\* every scheduler call and the build of the finished operation succeeded
Succeeded ==
  /\ result = "ok"
  /\ failed = {}
  /\ op = "start" => build = "ok"

\* the finished operation was a start of processes that were all Stopped
\* without pid, and it succeeded
CleanStart ==
  /\ op = "start"
  /\ Succeeded
  /\ \A i \in 1..Len(selected) :
       selected[i].state = "Stopped" /\ selected[i].pid = NoPid

\* bookkeeping shared by the first step of every operation
Begin(kind) ==
  /\ pc = "done"
  /\ op' = kind
  /\ prev' = IF CleanStart
              THEN [clean |-> TRUE, names |-> Names(selected), pre |-> pre]
              ELSE NoPrev
  /\ pre' = processes
  /\ attempted' = {}
  /\ failed' = {}
  /\ handle' = NoHandle
  /\ build' = "none"
  /\ UNCHANGED aux_vars

ArgLists == UNION {[1..k -> ArgNames] : k \in 0..MaxNames}

\* ------------------------------------------------------------------ start
\* Start::exec, line 111: filter_processes(&self.args.processes)?
StartBegin(names) ==
  LET f == filter_processes(processes, current_stack, names) IN
  /\ Begin("start")
  /\ args' = names
  /\ Len(tasks) + Len(f.procs) <= MaxTasks
  /\ selected' = f.procs
  /\ idx' = 1
  /\ IF f.ok THEN pc' = "mark" /\ result' = "none"
             ELSE pc' = "done" /\ result' = "err"
  /\ kill' = FALSE
  /\ stop_pc' = NoStopPc
  /\ user_pids' = {}
  /\ refresh_config' = FALSE
  /\ UNCHANGED <<processes, tasks, current_stack>>

\* Start::exec, lines 112-116: one set_state(Building) per selected process
StartMark ==
  /\ op = "start" /\ pc = "mark"
  /\ processes' = set_state(processes, selected[idx].name, "Building")
  /\ IF idx < Len(selected) THEN idx' = idx + 1 /\ pc' = pc
                            ELSE idx' = 1 /\ pc' = "build"
  /\ UNCHANGED <<tasks, current_stack, op, selected, kill, stop_pc, user_pids,
                 refresh_config, result, build, attempted, failed, handle,
                 pre, prev, args>>
  /\ UNCHANGED aux_vars

\* Start::build: Cargo::build spawns (exit status zero or not) or fails to
\* spawn; a non-zero exit returns Err, which Start::exec propagates
StartBuild(outcome) ==
  /\ op = "start" /\ pc = "build"
  /\ build' = outcome
  /\ idx' = 1
  /\ CASE outcome = "ok"    -> pc' = "run" /\ result' = result
       [] outcome = "exit"  -> pc' = "done" /\ result' = "err"
       [] outcome = "spawn" -> pc' = "revert" /\ result' = result
  /\ UNCHANGED <<processes, tasks, current_stack, op, selected, kill, stop_pc,
                 user_pids, refresh_config, attempted, failed, handle, pre,
                 prev, args>>
  /\ UNCHANGED aux_vars

\* Start::build, lines 54-61: spawn failure sets every process Stopped and
\* then returns Ok(())
StartRevert ==
  /\ op = "start" /\ pc = "revert"
  /\ processes' = set_state(processes, selected[idx].name, "Stopped")
  /\ IF idx < Len(selected) THEN idx' = idx + 1 /\ pc' = pc
                            ELSE idx' = 1 /\ pc' = "run"
  /\ UNCHANGED <<tasks, current_stack, op, selected, kill, stop_pc, user_pids,
                 refresh_config, result, build, attempted, failed, handle,
                 pre, prev, args>>
  /\ UNCHANGED aux_vars

\* end of one iteration of the loop of Start::exec, lines 118-125
StartAdvance ==
  IF idx < Len(selected)
    THEN idx' = idx + 1 /\ pc' = "run" /\ result' = result
    ELSE idx' = idx /\ pc' = "done" /\ result' = "ok"

\* Start::run, lines 67-70: the snapshot says the process is already started
StartRunSkip ==
  /\ op = "start" /\ pc = "run"
  /\ selected[idx].state \notin {"Stopped", "Building"}
  /\ StartAdvance
  /\ UNCHANGED <<processes, tasks, current_stack, op, selected, kill, stop_pc,
                 user_pids, refresh_config, build, attempted, failed, handle,
                 pre, prev, args>>
  /\ UNCHANGED aux_vars

\* Pueue::start: Add request, then poll until the task is Running
PueueStart(label, outcome) ==
  CASE outcome = "ok"         -> Append(tasks, [label |-> label, status |-> "Running"])
    [] outcome = "err_status" -> Append(tasks, [label |-> label, status |-> "Running"])
    [] outcome = "err_add"    -> tasks

\* variant: Start::exec propagates the error of Start::run with `?`
StartRunLaunchAbort(outcome) ==
  LET name == selected[idx].name IN
  /\ op = "start" /\ pc = "run"
  /\ selected[idx].state \in {"Stopped", "Building"}
  /\ tasks' = PueueStart(name, outcome)
  /\ attempted' = attempted \cup {name}
  /\ IF outcome = "ok"
       THEN /\ handle' = [handle EXCEPT ![name] = Len(tasks) + 1]
            /\ pc' = "set_state"
            /\ UNCHANGED <<idx, result, failed>>
       ELSE /\ failed' = failed \cup {name}
            /\ pc' = "done" /\ result' = "err" /\ idx' = idx
            /\ UNCHANGED handle
  /\ UNCHANGED <<processes, current_stack, op, selected, kill, stop_pc,
                 user_pids, refresh_config, build, pre, prev, args>>
  /\ UNCHANGED aux_vars

\* Start::run, lines 71-99: scheduler().start(..).await?
StartRunLaunch(outcome) ==
  LET name == selected[idx].name IN
  /\ op = "start" /\ pc = "run"
  /\ selected[idx].state \in {"Stopped", "Building"}
  /\ tasks' = PueueStart(name, outcome)
  /\ attempted' = attempted \cup {name}
  /\ IF outcome = "ok"
       THEN /\ handle' = [handle EXCEPT ![name] = Len(tasks) + 1]
            /\ pc' = "set_state"
            /\ UNCHANGED <<idx, result, failed>>
       ELSE /\ failed' = failed \cup {name}
            /\ StartAdvance
            /\ UNCHANGED handle
  /\ UNCHANGED <<processes, current_stack, op, selected, kill, stop_pc,
                 user_pids, refresh_config, build, pre, prev, args>>
  /\ UNCHANGED aux_vars

\* Start::run, lines 100-102: set_state(Running)
StartSetState ==
  /\ op = "start" /\ pc = "set_state"
  /\ processes' = set_state(processes, selected[idx].name, "Running")
  /\ pc' = "set_pid"
  /\ UNCHANGED <<tasks, current_stack, op, selected, idx, kill, stop_pc,
                 user_pids, refresh_config, result, build, attempted, failed,
                 handle, pre, prev, args>>
  /\ UNCHANGED aux_vars

\* Start::run, line 103: set_pid(Some(pid))
StartSetPid ==
  /\ op = "start" /\ pc = "set_pid"
  /\ processes' = set_pid(processes, selected[idx].name,
                          handle[selected[idx].name])
  /\ StartAdvance
  /\ UNCHANGED <<tasks, current_stack, op, selected, kill, stop_pc, user_pids,
                 refresh_config, build, attempted, failed, handle, pre, prev,
                 args>>
  /\ UNCHANGED aux_vars

\* ------------------------------------------------------------------- stop
\* variant: every stop task is handed the first selected process
SnapshotFirst(name) == selected[1]

\* the snapshot of process `name` handed to its stop task
Snapshot(name) ==
  CHOOSE p \in Range(selected) : p.name = name

\* Stop::exec, lines 29-34: filter_processes, then one spawned task each
StopBegin(names, k) ==
  LET f == filter_processes(processes, current_stack, names) IN
  /\ Begin("stop")
  /\ args' = names
  /\ selected' = f.procs
  /\ kill' = k
  /\ idx' = 0
  /\ stop_pc' = [n \in ProcessNames |->
                   IF n \in Names(f.procs) THEN "spawned" ELSE "none"]
  /\ IF f.ok THEN pc' = "join" /\ result' = "none"
             ELSE pc' = "done" /\ result' = "err"
  /\ user_pids' = {}
  /\ refresh_config' = FALSE
  /\ UNCHANGED <<processes, tasks, current_stack>>

\* Pueue::stop: Kill request, then poll until the task is Done
PueueStop(pid, outcome) ==
  IF outcome = "ok" THEN [tasks EXCEPT ![pid].status = "Done"] ELSE tasks

\* run (stop.rs), lines 53-57: already Stopped in the snapshot, return Ok
StopSkip(name) ==
  /\ op = "stop" /\ stop_pc[name] = "spawned"
  /\ Snapshot(name).state = "Stopped"
  /\ stop_pc' = [stop_pc EXCEPT ![name] = "ok"]
  /\ UNCHANGED <<processes, tasks, current_stack, op, pc, selected, idx, kill,
                 user_pids, refresh_config, result, build, attempted, failed,
                 handle, pre, prev, args>>
  /\ UNCHANGED aux_vars

\* run (stop.rs), lines 58-61: scheduler().stop(pid, kill).await? when the
\* snapshot holds a pid
StopScheduler(name, outcome) ==
  /\ op = "stop" /\ stop_pc[name] = "spawned"
  /\ Snapshot(name).state # "Stopped"
  /\ Snapshot(name).pid # NoPid
  /\ tasks' = PueueStop(Snapshot(name).pid, outcome)
  /\ attempted' = attempted \cup {name}
  /\ IF outcome = "ok"
       THEN stop_pc' = [stop_pc EXCEPT ![name] = "set_state"]
            /\ failed' = failed
       ELSE stop_pc' = [stop_pc EXCEPT ![name] = "err"]
            /\ failed' = failed \cup {name}
  /\ UNCHANGED <<processes, current_stack, op, pc, selected, idx, kill,
                 user_pids, refresh_config, result, build, handle, pre, prev,
                 args>>
  /\ UNCHANGED aux_vars

\* run (stop.rs), lines 62-64: set_state(Stopped); reached directly when the
\* snapshot holds no pid
StopSetState(name) ==
  /\ op = "stop"
  /\ \/ stop_pc[name] = "set_state"
     \/ /\ stop_pc[name] = "spawned"
        /\ Snapshot(name).state # "Stopped"
        /\ Snapshot(name).pid = NoPid
  /\ processes' = set_state(processes, name, "Stopped")
  /\ stop_pc' = [stop_pc EXCEPT ![name] = "set_pid"]
  /\ UNCHANGED <<tasks, current_stack, op, pc, selected, idx, kill, user_pids,
                 refresh_config, result, build, attempted, failed, handle,
                 pre, prev, args>>
  /\ UNCHANGED aux_vars

\* run (stop.rs), line 65: set_pid(None)
StopSetPid(name) ==
  /\ op = "stop" /\ stop_pc[name] = "set_pid"
  /\ processes' = set_pid(processes, name, NoPid)
  /\ stop_pc' = [stop_pc EXCEPT ![name] = "ok"]
  /\ UNCHANGED <<tasks, current_stack, op, pc, selected, idx, kill, user_pids,
                 refresh_config, result, build, attempted, failed, handle,
                 pre, prev, args>>
  /\ UNCHANGED aux_vars

\* Stop::exec, lines 37-49: join_next until the JoinSet is empty, errors are
\* printed, Ok(()) is returned
StopJoin ==
  /\ op = "stop" /\ pc = "join"
  /\ \A n \in Names(selected) : stop_pc[n] \in {"ok", "err"}
  /\ pc' = "done"
  /\ result' = "ok"
  /\ UNCHANGED <<processes, tasks, current_stack, op, selected, idx, kill,
                 stop_pc, user_pids, refresh_config, build, attempted, failed,
                 handle, pre, prev, args>>
  /\ UNCHANGED aux_vars

\* ---------------------------------------------------------------- refresh
\* binary each process gets from the config file (ConfigProcess.binary or
\* the process name)
ConfigProcesses == [n \in ProcessNames |-> n]

\* State::refresh_processes: rebuild every process from the config, keeping
\* pid and state of the processes already stored
refresh_processes(table) ==
  [n \in DOMAIN ConfigProcesses |->
     IF n \in DOMAIN table
       THEN [binary |-> ConfigProcesses[n], state |-> table[n].state,
             pid |-> table[n].pid]
       ELSE [binary |-> ConfigProcesses[n], state |-> "Stopped",
             pid |-> NoPid]]

\* State::get_user_pids: the handles alive when refresh starts
get_user_pids == Live

\* State::refresh, lines 524-525: read the live pids and the stored processes
RefreshBegin(is_hard, needs_to_refresh_config) ==
  /\ Begin("refresh")
  /\ args' = <<>>
  /\ user_pids' = get_user_pids
  /\ selected' = get_processes(processes)
  /\ idx' = 1
  /\ refresh_config' = (is_hard \/ needs_to_refresh_config)
  /\ pc' = "reconcile"
  /\ result' = "none"
  /\ kill' = FALSE
  /\ stop_pc' = NoStopPc
  /\ UNCHANGED <<processes, tasks, current_stack>>

\* after reconcile_pids of the last process: State::refresh, lines 534-542
RefreshAdvance ==
  IF idx < Len(selected)
    THEN idx' = idx + 1 /\ pc' = "reconcile" /\ result' = result
    ELSE /\ idx' = idx
         /\ IF refresh_config
              THEN pc' = "refresh_processes" /\ result' = result
              ELSE pc' = "done" /\ result' = "ok"

\* State::reconcile_pids, lines 842-843: no pid, or the pid is alive
ReconcileKeep ==
  /\ op = "refresh" /\ pc = "reconcile"
  /\ \/ selected[idx].pid = NoPid
     \/ selected[idx].pid \in user_pids
  /\ RefreshAdvance
  /\ UNCHANGED <<processes, tasks, current_stack, op, selected, kill, stop_pc,
                 user_pids, refresh_config, build, attempted, failed, handle,
                 pre, prev, args>>
  /\ UNCHANGED aux_vars

\* State::reconcile_pids, line 844: set_status(Stopped) for a dead pid
ReconcileSetStatus ==
  /\ op = "refresh" /\ pc = "reconcile"
  /\ selected[idx].pid # NoPid
  /\ selected[idx].pid \notin user_pids
  /\ processes' = set_state(processes, selected[idx].name, "Stopped")
  /\ pc' = "reconcile_pid"
  /\ UNCHANGED <<tasks, current_stack, op, selected, idx, kill, stop_pc,
                 user_pids, refresh_config, result, build, attempted, failed,
                 handle, pre, prev, args>>
  /\ UNCHANGED aux_vars

\* State::reconcile_pids, line 846: set_pid(None)
ReconcileSetPid ==
  /\ op = "refresh" /\ pc = "reconcile_pid"
  /\ processes' = set_pid(processes, selected[idx].name, NoPid)
  /\ RefreshAdvance
  /\ UNCHANGED <<tasks, current_stack, op, selected, kill, stop_pc, user_pids,
                 refresh_config, build, attempted, failed, handle, pre, prev,
                 args>>
  /\ UNCHANGED aux_vars

\* State::refresh, lines 534-540: the config refresh
RefreshProcesses ==
  /\ op = "refresh" /\ pc = "refresh_processes"
  /\ processes' = refresh_processes(processes)
  /\ pc' = "done"
  /\ result' = "ok"
  /\ UNCHANGED <<tasks, current_stack, op, selected, idx, kill, stop_pc,
                 user_pids, refresh_config, build, attempted, failed, handle,
                 pre, prev, args>>
  /\ UNCHANGED aux_vars

\* ------------------------------------------------------------ environment
\* a scheduler task exits or is killed outside of jocker
ExternalKill(t) ==
  /\ t \in Live
  /\ tasks' = [tasks EXCEPT ![t].status = "Done"]
  /\ UNCHANGED <<processes, current_stack, op, pc, selected, idx, kill,
                 stop_pc, user_pids, refresh_config, result, build, attempted,
                 failed, handle, pre, prev, args>>
  /\ UNCHANGED aux_vars

\* ----------------------------------------------------------- specification
Next ==
  \/ \E names \in ArgLists : StartBegin(names)
  \/ StartMark
  \/ \E outcome \in {"ok", "exit", "spawn"} : StartBuild(outcome)
  \/ StartRevert
  \/ StartRunSkip
  \/ \E outcome \in {"ok", "err_add", "err_status"} : StartRunLaunch(outcome)
  \/ StartSetState
  \/ StartSetPid
  \/ \E names \in ArgLists, k \in BOOLEAN : StopBegin(names, k)
  \/ \E n \in ProcessNames : StopSkip(n)
  \/ \E n \in ProcessNames, outcome \in {"ok", "err"} : StopScheduler(n, outcome)
  \/ \E n \in ProcessNames : StopSetState(n)
  \/ \E n \in ProcessNames : StopSetPid(n)
  \/ StopJoin
  \/ \E h \in BOOLEAN, c \in BOOLEAN : RefreshBegin(h, c)
  \/ ReconcileKeep
  \/ ReconcileSetStatus
  \/ ReconcileSetPid
  \/ RefreshProcesses
  \/ \E t \in 1..MaxTasks : ExternalKill(t)

Spec == Init /\ [][Next]_vars

TypeOK ==
  /\ \A n \in ProcessNames :
       /\ processes[n].state \in ProcessState
       /\ processes[n].pid \in 0..MaxTasks
  /\ Len(tasks) <= MaxTasks
  /\ pc \in {"done", "mark", "build", "revert", "run", "set_state", "set_pid",
             "join", "reconcile", "reconcile_pid", "refresh_processes"}

\* ------------------------------------------------------------ properties
\* ps: the (name, state, pid) projection of the process table
Projection(table) ==
  [n \in DOMAIN table |-> [state |-> table[n].state, pid |-> table[n].pid]]

StoppedNoPid(table, n) ==
  table[n].state = "Stopped" /\ table[n].pid = NoPid

StartDone == op = "start" /\ pc = "done"
StopDone == op = "stop" /\ pc = "done"
RefreshDone == op = "refresh" /\ pc = "done"

\* C1: a successful start of processes that were all Stopped without pid,
\* followed by a successful stop of the same processes, leaves every selected
\* process Stopped without pid and the (name, state, pid) projection of the
\* store equal to the one before the start.
C1_StartStopRoundTrip ==
  (StopDone /\ Succeeded /\ prev.clean /\ prev.names = Names(selected)) =>
    /\ \A n \in Names(selected) : StoppedNoPid(processes, n)
    /\ Projection(processes) = Projection(prev.pre)

\* C1 witness: the second start/stop pair of eris has completed
C1_Witness ==
  /\ StopDone /\ Succeeded /\ prev.clean /\ prev.names = Names(selected)
  /\ "eris" \in attempted
  /\ Cardinality({t \in TaskIds : tasks[t].label = "eris"}) >= 2

\* C2: in every reachable store state, the states between single store
\* writes included, a Running process has a pid.
C2_RunningHasPid ==
  \A n \in ProcessNames :
    processes[n].state = "Running" => processes[n].pid # NoPid

\* C3: every change of a stored state is one of Stopped->Building,
\* Building->Running, Running->Stopped, Building->Stopped, or a move to
\* Unknown.
AllowedTransitions ==
  {<<"Stopped", "Building">>, <<"Building", "Running">>,
   <<"Running", "Stopped">>, <<"Building", "Stopped">>}
C3_StateMachine ==
  [][\A n \in ProcessNames :
       processes'[n].state # processes[n].state =>
         \/ <<processes[n].state, processes'[n].state>> \in AllowedTransitions
         \/ processes'[n].state = "Unknown"]_vars

\* C4: after a refresh has returned successfully every Stopped process has
\* no pid.
C4_StoppedNoPidAfterRefresh ==
  (RefreshDone /\ result = "ok") =>
    \A n \in ProcessNames :
      processes[n].state = "Stopped" => processes[n].pid = NoPid

\* C5: when start completes after a successful build, every selected process
\* that was Stopped and whose scheduler start succeeded is stored Running
\* with the handle the scheduler returned for it.
C5_StartedIsRunning ==
  (StartDone /\ build = "ok") =>
    \A i \in 1..Len(selected) :
      LET n == selected[i].name IN
      (selected[i].state = "Stopped" /\ n \in attempted \ failed) =>
        /\ processes[n].state = "Running"
        /\ processes[n].pid = handle[n]
        /\ handle[n] \in TaskIds
        /\ tasks[handle[n]].label = n

\* C5 witness: both processes were Stopped and have been started
C5_Witness ==
  /\ StartDone /\ build = "ok"
  /\ Len(selected) = 2
  /\ \A i \in 1..Len(selected) : selected[i].state = "Stopped"
  /\ attempted \ failed = ProcessNames

\* C6: a step of start or stop changes state and pid of selected processes
\* only, and changes no binary.
C6_Frame ==
  [][op' \in {"start", "stop"} =>
       \A n \in ProcessNames :
         /\ n \notin Names(selected') => processes'[n] = processes[n]
         /\ processes'[n].binary = processes[n].binary]_vars

\* C6 witness: start eris has completed, harmonia was not selected
C6_Witness ==
  /\ StartDone /\ Names(selected) = {"eris"}
  /\ processes["eris"].state = "Running" /\ processes["eris"].pid # NoPid
  /\ StoppedNoPid(processes, "harmonia")

\* C7: when the build exits with a non-zero status, start fails, launches
\* nothing and every selected process is Stopped again.
C7_BuildFailureReverts ==
  (StartDone /\ build = "exit") =>
    /\ result = "err"
    /\ attempted = {}
    /\ \A n \in Names(selected) : processes[n].state = "Stopped"

\* C8: start returns an error whenever a selected process failed to build or
\* to be started, and the processes that were started are Running with
\* their pid.
C8_StartReportsFailure ==
  StartDone =>
    /\ (build \in {"exit", "spawn"} \/ failed # {}) => result = "err"
    /\ \A n \in attempted \ failed :
         processes[n].state = "Running" /\ processes[n].pid = handle[n]

\* C9: when stop completes, whatever the interleaving of its tasks, every
\* selected process that was not Stopped and whose scheduler stop did not
\* fail is Stopped without pid, and a process that was already Stopped is
\* unchanged and no scheduler call was made for it.
C9_StopOutcome ==
  StopDone =>
    \A n \in Names(selected) :
      /\ (pre[n].state # "Stopped" /\ n \notin failed) =>
            StoppedNoPid(processes, n)
      /\ pre[n].state = "Stopped" =>
            (processes[n] = pre[n] /\ n \notin attempted)

\* C9 witness: stop of both processes has completed, eris was already
\* Stopped, harmonia was Running and has been stopped
C9_Witness ==
  /\ StopDone /\ Names(selected) = ProcessNames
  /\ pre["eris"].state = "Stopped"
  /\ pre["harmonia"].state = "Running"
  /\ attempted = {"harmonia"} /\ failed = {}
  /\ StoppedNoPid(processes, "harmonia")

\* C10: a failing scheduler call for one selected process does not keep
\* start or stop from being applied to every other selected process.
C10_SiblingsContinue ==
  /\ (StartDone /\ build \in {"ok", "spawn"}) =>
       \A i \in 1..Len(selected) :
         LET n == selected[i].name IN
         selected[i].state \in {"Stopped", "Building"} =>
           /\ n \in attempted
           /\ n \notin failed => processes[n].state = "Running"
  /\ StopDone =>
       \A n \in Names(selected) :
         pre[n].state # "Stopped" =>
           /\ pre[n].pid # NoPid => n \in attempted
           /\ n \notin failed => StoppedNoPid(processes, n)

\* C10 witness: the scheduler start of eris failed and harmonia, the next
\* process, has been started all the same
C10_Witness ==
  /\ StartDone /\ build = "ok"
  /\ failed = {"eris"}
  /\ "harmonia" \in attempted \ failed
  /\ processes["harmonia"].state = "Running"

\* C11: after any sequence of completed start and stop invocations the
\* scheduler group holds at most one task per process label, and there is
\* never more than one live task for the same process.
C11_OneTaskPerLabel ==
  \A n \in ProcessNames :
    /\ pc = "done" =>
         Cardinality({t \in TaskIds : tasks[t].label = n}) <= 1
    /\ Cardinality({t \in Live : tasks[t].label = n}) <= 1

\* C34: within one start(names) every selected process is marked Building
\* before the build command is started, and the processes are launched and
\* marked Running one at a time in the order the names were listed, each
\* only after the scheduler start of the one before has returned.
C34_StartOrder ==
  op = "start" =>
    /\ pc = "build" =>
         \A i \in 1..Len(selected) :
           processes[selected[i].name].state = "Building"
    /\ Cardinality({n \in ProcessNames :
                      handle[n] # NoPid /\ processes[n].state # "Running"})
         <= 1
    /\ \A i \in 1..Len(args), j \in 1..Len(args) :
         (/\ i < j
          /\ args[i] \in ProcessNames /\ args[j] \in ProcessNames
          /\ handle[args[i]] # NoPid /\ handle[args[j]] # NoPid) =>
           handle[args[i]] <= handle[args[j]]

\* C37: Building is transient: whenever a start(names) has returned, with
\* success or with an error, no selected process is stored as Building; each
\* is Running (launched), Stopped (build or launch failed) or, when it was
\* running before the call, still Running.
C37_BuildingIsTransient ==
  (op = "start" /\ pc = "done") =>
    \A i \in 1..Len(selected) :
      LET n == selected[i].name IN
      /\ processes[n].state \in {"Running", "Stopped"}
      /\ pre[n].state = "Running" => processes[n].state = "Running"

\* ===================================================================== ps
\* process tables the filter is applied to
PsTables ==
  {InitProcesses,
   [InitProcesses EXCEPT !["eris"] = [binary |-> "eris", state |-> "Running",
                                      pid |-> 1]],
   [InitProcesses EXCEPT !["harmonia"] = [binary |-> "harmonia",
                                          state |-> "Building",
                                          pid |-> NoPid]],
   [n \in ProcessNames |-> [binary |-> n, state |-> "Running",
                            pid |-> IF n = "eris" THEN 1 ELSE 2]]}

\* names a user may give as the stack
StackArgs == StackNames \cup {NoStack, "nyx"}

InitPs ==
  /\ LifecycleIdle
  /\ processes \in PsTables
  /\ current_stack = NoStack
  /\ ps = NoPs
  /\ db = EmptyDb
  /\ call = NoCall
  /\ resolver = NoResolver
  /\ LaterIdle

\* State::set_current_stack with Some(stack): the stack must be stored
SetCurrentStackSome(stack) ==
  /\ stack \in StackNames
  /\ current_stack' = stack
  /\ UNCHANGED <<processes, ps, db, call, resolver, refresh, pueue, logs, pure, locks>>
  /\ UNCHANGED lifecycle_vars

\* Database::get_default_stack
db_get_default_stack(d) == d.default_stack

\* State::set_current_stack with None: the default stack of the store
SetCurrentStackNone ==
  /\ current_stack' = db_get_default_stack(db)
  /\ UNCHANGED <<processes, ps, db, call, resolver, refresh, pueue, logs, pure, locks>>
  /\ UNCHANGED lifecycle_vars

\* State::set_current_stack with the name of a stack that is not stored:
\* get_stack fails with StackNotFound and nothing is assigned
SetCurrentStackNotFound(stack) ==
  /\ stack \notin StackNames \cup {NoStack}
  /\ UNCHANGED <<processes, current_stack, ps, db, call, resolver, refresh,
               pueue, logs, pure, locks>>
  /\ UNCHANGED lifecycle_vars

\* Ps::run: filter_processes(&self.args.processes)
PsRun(process_names) ==
  /\ ps' = [called |-> TRUE, stack |-> current_stack,
            process_names |-> process_names,
            out |-> filter_processes(processes, current_stack, process_names)]
  /\ UNCHANGED <<processes, current_stack, db, call, resolver, refresh, pueue,
               logs, pure, locks>>
  /\ UNCHANGED lifecycle_vars

NextPs ==
  \/ \E stack \in StackArgs : SetCurrentStackSome(stack)
  \/ SetCurrentStackNone
  \/ \E stack \in StackArgs : SetCurrentStackNotFound(stack)
  \/ \E process_names \in ArgLists : PsRun(process_names)

SpecPs == InitPs /\ [][NextPs]_vars

\* rows of the process table named in `names`
StoredRows(names) == {ProcessOf(processes, n) : n \in names \cap DOMAIN processes}

C13_ProcessNotFound ==
  LET names == Range(ps.process_names)
      missing == names \ DOMAIN processes
  IN ps.called =>
       /\ ps.out.ok <=> missing = {}
       /\ ~ps.out.ok => ps.out.missing = missing

\* ================================================================== store
MaxRows == 2      \* length of the list given to a replace_all call

\* Display for ProcessState
to_string(state) ==
  CASE state = "Stopped"  -> "stopped"
    [] state = "Building" -> "building"
    [] state = "Running"  -> "running"
    [] state = "Healthy"  -> "healthy"

\* TryFrom<String> for ProcessState
try_from(value) ==
  CASE value = "stopped"  -> "Stopped"
    [] value = "building" -> "Building"
    [] value = "running"  -> "Running"
    [] value = "healthy"  -> "Healthy"
    [] OTHER              -> "ParseError"

\* the parameters of the INSERT of Database::set_processes
ProcessSqlOf(proc) ==
  [name |-> proc.name, binary |-> proc.binary,
   state |-> to_string(proc.state), pid |-> proc.pid]

\* TryFrom<ProcessSql> for Process
ProcessFromSql(row) ==
  [name |-> row.name, binary |-> row.binary, state |-> try_from(row.state),
   pid |-> row.pid]

\* position of a name in the byte order of ORDER BY name ASC
Rank(name) == CHOOSE k \in 1..Len(ProcessOrder) : ProcessOrder[k] = name

\* rows of a table with a primary key `name`, ORDER BY name ASC
OrderByName(rows) ==
  LET order == SelectSeqBy(ProcessOrder, {rows[i].name : i \in 1..Len(rows)})
  IN [i \in 1..Len(order) |-> CHOOSE r \in Range(rows) : r.name = order[i]]

\* variant: the SELECT has no ORDER BY and returns the rows as inserted
db_get_processes_unordered(d) ==
  [i \in 1..Len(d.process) |-> ProcessFromSql(d.process[i])]

\* Database::get_processes
db_get_processes(d) ==
  LET rows == OrderByName(d.process)
  IN [i \in 1..Len(rows) |-> ProcessFromSql(rows[i])]

\* variant: one relation holds direct and inherited processes, and
\* inherited_processes is returned empty
db_get_stack_merged(d, stack) ==
  IF stack \notin d.stack
    THEN [ok |-> FALSE, name |-> stack, processes |-> {},
          inherited_processes |-> {}]
    ELSE [ok |-> TRUE, name |-> stack,
          processes |->
            {r[2] : r \in {q \in d.rel_stack_process
                                   \cup d.rel_stack_inherited_process :
                             q[1] = stack}},
          inherited_processes |-> {}]

\* Database::get_stack: StackNotFound, or the stack with the rows of the two
\* relations
db_get_stack(d, stack) ==
  IF stack \notin d.stack
    THEN [ok |-> FALSE, name |-> stack, processes |-> {},
          inherited_processes |-> {}]
    ELSE [ok |-> TRUE, name |-> stack,
          processes |->
            {r[2] : r \in {q \in d.rel_stack_process : q[1] = stack}},
          inherited_processes |->
            {r[2] : r \in {q \in d.rel_stack_inherited_process :
                             q[1] = stack}}]

\* names of the rows of a table
RowNames(rows) == {rows[i].name : i \in 1..Len(rows)}

\* variant: the relations do not reference process(name) ON DELETE CASCADE
delete_processes_no_cascade(d) ==
  [d EXCEPT !.process = <<>>]

\* DELETE FROM process: the rows of both relations that reference a deleted
\* process go with it (ON DELETE CASCADE)
delete_processes(d) ==
  LET deleted == RowNames(d.process) IN
  [d EXCEPT !.process = <<>>,
            !.rel_stack_process = {r \in @ : r[2] \notin deleted},
            !.rel_stack_inherited_process = {r \in @ : r[2] \notin deleted}]

\* DELETE FROM stack: the rows of both relations that reference a deleted
\* stack go with it (ON DELETE CASCADE), metadata.default_stack becomes
\* NULL (ON DELETE SET NULL)
delete_stacks(d) ==
  LET deleted == d.stack IN
  [d EXCEPT !.stack = {},
            !.rel_stack_process = {r \in @ : r[1] \notin deleted},
            !.rel_stack_inherited_process = {r \in @ : r[1] \notin deleted},
            !.default_stack = IF @ \in deleted THEN NoStack ELSE @]

\* DELETE FROM binary
delete_binaries(d) == [d EXCEPT !.binary = <<>>]

\* ------------------------------------------------------------ the inputs
ProcessRows ==
  {[name |-> "eris", binary |-> "eris", state |-> "Stopped", pid |-> NoPid],
   [name |-> "eris", binary |-> "harmonia", state |-> "Running", pid |-> 1],
   [name |-> "harmonia", binary |-> "harmonia", state |-> "Building",
    pid |-> NoPid],
   [name |-> "harmonia", binary |-> "harmonia", state |-> "Healthy",
    pid |-> 2]}
ProcessLists == UNION {[1..k -> ProcessRows] : k \in 0..MaxRows}

BinaryRows ==
  {[name |-> "eris", id |-> "path+file:///eris"],
   [name |-> "harmonia", id |-> "path+file:///harmonia"]}
BinaryLists == UNION {[1..k -> BinaryRows] : k \in 0..MaxRows}

StackRows ==
  {[name |-> "base", processes |-> {"eris"}, inherited_processes |-> {}],
   [name |-> "full", processes |-> {"harmonia"},
    inherited_processes |-> {"eris"}],
   [name |-> "full", processes |-> {"harmonia"},
    inherited_processes |-> {"ghost"}],
   [name |-> "base", processes |-> {"ghost"}, inherited_processes |-> {}]}
StackLists == UNION {[1..k -> StackRows] : k \in 0..MaxRows}

\* ------------------------------------------------------- the store calls
InitStore ==
  /\ LifecycleIdle
  /\ processes = InitProcesses
  /\ current_stack = NoStack
  /\ ps = NoPs
  /\ db = EmptyDb
  /\ call = NoCall
  /\ resolver = NoResolver
  /\ LaterIdle

store_frame == <<processes, current_stack, ps, resolver, refresh, pueue, logs,
                pure, locks>>

\* the record of a call that starts on database `d`
CallOf(kind, arg, d) ==
  [op |-> kind, pc |-> "done", arg |-> arg, i |-> 1, todo |-> {}, pre |-> d,
   res |-> "none", missing |-> {}]

\* a replace_all call returns: Ok(()) after the last insert, or the error
\* of the statement that failed
Return(res) == [call EXCEPT !.pc = "done", !.res = res]

\* Database::set_processes: DELETE FROM process
SetProcessesBegin(procs) ==
  /\ call.pc = "done"
  /\ db' = delete_processes(db)
  /\ call' = IF procs = <<>>
               THEN [CallOf("set_processes", procs, db) EXCEPT !.res = "ok"]
               ELSE [CallOf("set_processes", procs, db) EXCEPT !.pc = "insert"]
  /\ UNCHANGED store_frame
  /\ UNCHANGED lifecycle_vars

\* Database::set_processes: one INSERT INTO process; a second row with the
\* same name violates the primary key
SetProcessesInsert ==
  LET row == ProcessSqlOf(call.arg[call.i]) IN
  /\ call.op = "set_processes" /\ call.pc = "insert"
  /\ IF row.name \in RowNames(db.process)
       THEN db' = db /\ call' = Return("Sqlite")
       ELSE /\ db' = [db EXCEPT !.process = Append(@, row)]
            /\ call' = IF call.i = Len(call.arg) THEN Return("ok")
                       ELSE [call EXCEPT !.i = @ + 1]
  /\ UNCHANGED store_frame
  /\ UNCHANGED lifecycle_vars

\* Database::set_binaries: DELETE FROM binary
SetBinariesBegin(binaries) ==
  /\ call.pc = "done"
  /\ db' = delete_binaries(db)
  /\ call' = IF binaries = <<>>
               THEN [CallOf("set_binaries", binaries, db) EXCEPT !.res = "ok"]
               ELSE [CallOf("set_binaries", binaries, db) EXCEPT !.pc = "insert"]
  /\ UNCHANGED store_frame
  /\ UNCHANGED lifecycle_vars

\* Database::set_binaries: one INSERT INTO binary
SetBinariesInsert ==
  LET row == call.arg[call.i] IN
  /\ call.op = "set_binaries" /\ call.pc = "insert"
  /\ IF row.name \in RowNames(db.binary)
       THEN db' = db /\ call' = Return("Sqlite")
       ELSE /\ db' = [db EXCEPT !.binary = Append(@, row)]
            /\ call' = IF call.i = Len(call.arg) THEN Return("ok")
                       ELSE [call EXCEPT !.i = @ + 1]
  /\ UNCHANGED store_frame
  /\ UNCHANGED lifecycle_vars

\* Database::set_stacks: the process names are read, then DELETE FROM stack
SetStacksBegin(stacks) ==
  /\ call.pc = "done"
  /\ db' = delete_stacks(db)
  /\ call' = IF stacks = <<>>
               THEN [CallOf("set_stacks", stacks, db) EXCEPT !.res = "ok"]
               ELSE [CallOf("set_stacks", stacks, db) EXCEPT !.pc = "stack"]
  /\ UNCHANGED store_frame
  /\ UNCHANGED lifecycle_vars

\* the call after the last relation row of stack call.i
NextStack ==
  IF call.i = Len(call.arg)
    THEN [call EXCEPT !.pc = "done", !.res = "ok", !.todo = {}]
    ELSE [call EXCEPT !.pc = "stack", !.i = @ + 1, !.todo = {}]

\* Database::set_stacks, one iteration: the missing processes of the stack
\* are computed, an Err is returned if there are any, else INSERT INTO stack
SetStacksInsertStack ==
  LET stack == call.arg[call.i]
      missing_processes ==
        (stack.processes \cup stack.inherited_processes)
          \ RowNames(db.process)
      todo == {<<"processes", p>> : p \in stack.processes}
                \cup {<<"inherited_processes", p>> :
                        p \in stack.inherited_processes}
  IN
  /\ call.op = "set_stacks" /\ call.pc = "stack"
  /\ IF missing_processes # {}
       THEN /\ db' = db
            /\ call' = [Return("ProcessNotFound")
                          EXCEPT !.missing = missing_processes]
     ELSE IF stack.name \in db.stack
       THEN db' = db /\ call' = Return("Sqlite")
     ELSE /\ db' = [db EXCEPT !.stack = @ \cup {stack.name}]
          /\ call' = IF todo = {} THEN NextStack
                     ELSE [call EXCEPT !.pc = "rel", !.todo = todo]
  /\ UNCHANGED store_frame
  /\ UNCHANGED lifecycle_vars

\* Database::set_stacks: one INSERT INTO rel_stack_process or, after those,
\* into rel_stack_inherited_process, in the order the HashSet iterates
SetStacksInsertRel(row) ==
  LET stack == call.arg[call.i]
      rest == call.todo \ {row}
  IN
  /\ call.op = "set_stacks" /\ call.pc = "rel"
  /\ row \in call.todo
  /\ row[1] = "inherited_processes" =>
       \A r \in call.todo : r[1] = "inherited_processes"
  /\ db' = IF row[1] = "processes"
             THEN [db EXCEPT !.rel_stack_process =
                               @ \cup {<<stack.name, row[2]>>}]
             ELSE [db EXCEPT !.rel_stack_inherited_process =
                               @ \cup {<<stack.name, row[2]>>}]
  /\ call' = IF rest = {} THEN NextStack ELSE [call EXCEPT !.todo = rest]
  /\ UNCHANGED store_frame
  /\ UNCHANGED lifecycle_vars

\* Database::set_default_stack: one upsert of metadata; default_stack
\* references stack(name)
SetDefaultStack(stack) ==
  /\ call.pc = "done"
  /\ IF stack = NoStack \/ stack \in db.stack
       THEN /\ db' = [db EXCEPT !.default_stack = stack]
            /\ call' = [CallOf("set_default_stack", <<stack>>, db)
                          EXCEPT !.res = "ok"]
       ELSE /\ db' = db
            /\ call' = [CallOf("set_default_stack", <<stack>>, db)
                          EXCEPT !.res = "Sqlite"]
  /\ UNCHANGED store_frame
  /\ UNCHANGED lifecycle_vars

RelRows == {"processes", "inherited_processes"} \X ArgNames

NextStore ==
  \/ \E procs \in ProcessLists : SetProcessesBegin(procs)
  \/ SetProcessesInsert
  \/ \E binaries \in BinaryLists : SetBinariesBegin(binaries)
  \/ SetBinariesInsert
  \/ \E stacks \in StackLists : SetStacksBegin(stacks)
  \/ SetStacksInsertStack
  \/ \E row \in RelRows : SetStacksInsertRel(row)
  \/ \E stack \in StackArgs : SetDefaultStack(stack)

SpecStore == InitStore /\ [][NextStore]_vars

\* ------------------------------------------------------ store properties
ReplaceAll == {"set_binaries", "set_processes", "set_stacks"}
CallDone(kind) == call.op = kind /\ call.pc = "done"

\* stacks, both relations and the default stack of a database
StackPart(d) ==
  [stack |-> d.stack, rel_stack_process |-> d.rel_stack_process,
   rel_stack_inherited_process |-> d.rel_stack_inherited_process,
   default_stack |-> d.default_stack]

\* process names the stacks of list `stacks` reference and `d` does not store
MissingOf(stacks, d) ==
  UNION {(stacks[i].processes \cup stacks[i].inherited_processes)
           \ RowNames(d.process) : i \in 1..Len(stacks)}

\* C14: set_stacks(S) in which some stack references, directly or as
\* inherited, a process that is not stored fails with ProcessNotFound listing
\* the missing names and leaves the stored stacks, both relations and the
\* default stack as they were before the call.
C14_SetStacksValidates ==
  (CallDone("set_stacks") /\ MissingOf(call.arg, call.pre) # {}) =>
    /\ call.res = "ProcessNotFound"
    /\ call.missing # {}
    /\ call.missing \subseteq MissingOf(call.arg, call.pre)
    /\ StackPart(db) = StackPart(call.pre)

\* C15: each replace_all operation is all-or-nothing: when one of its
\* inserts fails the store content is the same as before the call, and no
\* reader observes the truncated or partially inserted relation.
C15_ReplaceAllAtomic ==
  call.op \in ReplaceAll =>
    /\ (call.pc = "done" /\ call.res # "ok") => db = call.pre
    /\ call.pc # "done" => db = call.pre

\* every relation row references a stored stack and a stored process, and
\* the default stack is null or stored
RefIntegrity(d) ==
  /\ \A r \in d.rel_stack_process \cup d.rel_stack_inherited_process :
       r[1] \in d.stack /\ r[2] \in RowNames(d.process)
  /\ d.default_stack \in d.stack \cup {NoStack}

\* C16: in every store state reachable by set_processes, set_stacks and
\* set_default_stack calls, every process name in a stack's direct or
\* inherited relation is a stored process, every relation row belongs to a
\* stored stack, and default_stack is null or names a stored stack;
\* set_default_stack with the name of an absent stack fails and leaves
\* default_stack unchanged.
C16_ReferentialIntegrity ==
  /\ RefIntegrity(db)
  /\ (CallDone("set_default_stack")
        /\ call.arg[1] \notin call.pre.stack \cup {NoStack}) =>
       /\ call.res # "ok"
       /\ db.default_stack = call.pre.default_stack

\* C16 witness: set_processes has removed a process that stacks referenced
\* while a default stack was set
C16_Witness ==
  /\ CallDone("set_processes") /\ call.res = "ok"
  /\ call.pre.rel_stack_process # {}
  /\ call.pre.rel_stack_inherited_process # {}
  /\ db.rel_stack_process = {} /\ db.rel_stack_inherited_process = {}
  /\ db.default_stack # NoStack

DistinctNames(rows) == Cardinality(RowNames(rows)) = Len(rows)

\* C17: for a list X of processes with distinct names, set_processes(X)
\* followed by get_processes() returns exactly the elements of X, each with
\* all fields unchanged, sorted by name, whatever was stored before.
C17_SetGetProcesses ==
  (CallDone("set_processes") /\ DistinctNames(call.arg)) =>
    LET got == db_get_processes(db) IN
    /\ call.res = "ok"
    /\ Len(got) = Len(call.arg)
    /\ Range(got) = Range(call.arg)
    /\ \A i \in 1..Len(got), j \in 1..Len(got) :
         i < j => Rank(got[i].name) < Rank(got[j].name)

\* C17 witness: harmonia then eris were stored over a table that held
\* other rows
C17_Witness ==
  /\ CallDone("set_processes") /\ call.res = "ok"
  /\ Len(call.arg) = 2
  /\ call.arg[1].name = "harmonia" /\ call.arg[2].name = "eris"
  /\ call.pre.process # <<>>
  /\ RowNames(call.pre.process) = {"eris"}

\* C18: after set_stacks(S) succeeds, get_stack(n) for every stack n of S
\* returns n's direct and n's inherited processes as two separate sets equal
\* to the ones given in S, and get_stack(x) for a name x not in S fails with
\* StackNotFound.
C18_SetGetStacks ==
  (CallDone("set_stacks") /\ call.res = "ok") =>
    /\ \A i \in 1..Len(call.arg) :
         db_get_stack(db, call.arg[i].name) =
           [ok |-> TRUE, name |-> call.arg[i].name,
            processes |-> call.arg[i].processes,
            inherited_processes |-> call.arg[i].inherited_processes]
    /\ \A x \in StackArgs \ RowNames(call.arg) : ~db_get_stack(db, x).ok

\* C18 witness: base and full, which inherits eris, have been stored
C18_Witness ==
  /\ CallDone("set_stacks") /\ call.res = "ok"
  /\ Len(call.arg) = 2
  /\ \E i \in 1..2 : /\ call.arg[i].name = "full"
                     /\ call.arg[i].inherited_processes = {"eris"}
  /\ db.stack = {"base", "full"}

\* =============================================== stack inheritance resolver
MAX_RECURSION_LEVEL == 10
MaxChain == 12    \* longest chain of ancestors in a configuration

\* names of the stacks of a chain, root first
ChainNames ==
  <<"s00", "s01", "s02", "s03", "s04", "s05", "s06", "s07", "s08", "s09",
    "s10", "s11", "s12", "s13", "s14", "s15">>
ChainIndex(s) == CHOOSE k \in 1..Len(ChainNames) : ChainNames[k] = s

\* ConfigFile.stacks of a chain: s00 inherits s01 inherits ... up to n
\* ancestors; the last one inherits nothing (back = 0) or the stack at
\* position `back`
Chain(n, back) ==
  [s \in {ChainNames[k] : k \in 1..(n + 1)} |->
     [inherits |->
        IF ChainIndex(s) <= n THEN {ChainNames[ChainIndex(s) + 1]}
        ELSE IF back = 0 THEN {} ELSE {ChainNames[back]},
      processes |->
        IF ChainIndex(s) % 2 = 0 THEN {"eris"} ELSE {"harmonia"}]]
ChainConfigs == {Chain(n, back) : n \in 0..MaxChain, back \in 0..(MaxChain + 1)}

\* ConfigFile.stacks over three stacks with any inherits sets, "x" being a
\* stack the file does not define
GraphNames == {"a", "b", "c"}
GraphProcesses == [a |-> {"eris"}, b |-> {"harmonia"}, c |-> {}]
GraphConfigs ==
  {[s \in GraphNames |-> [inherits |-> f[s], processes |-> GraphProcesses[s]]] :
     f \in [GraphNames -> SUBSET (GraphNames \cup {"x"})]}

\* ConfigFile.stacks of a diamond: d inherits b and c, which both inherit a
Diamond ==
  [a |-> [inherits |-> {}, processes |-> {"eris"}],
   b |-> [inherits |-> {"a"}, processes |-> {"harmonia"}],
   c |-> [inherits |-> {"a"}, processes |-> {}],
   d |-> [inherits |-> {"b", "c"}, processes |-> {}]]

InitResolver ==
  /\ LifecycleIdle
  /\ processes = InitProcesses
  /\ current_stack = NoStack
  /\ ps = NoPs
  /\ LaterIdle
  /\ db = EmptyDb
  /\ call = NoCall
  /\ resolver \in {[NoResolver EXCEPT !.stacks = c] :
                     c \in ChainConfigs \cup GraphConfigs \cup {Diamond}}

resolver_frame == <<processes, current_stack, ps, db, call, refresh, pueue,
                   logs, pure, locks>>

\* variant: the test is `>=`
too_deep_at_limit(recursion_level) == recursion_level >= MAX_RECURSION_LEVEL

\* recurse_inherited_processes: recursion_level > MAX_RECURSION_LEVEL
too_deep(recursion_level) == recursion_level > MAX_RECURSION_LEVEL

\* recurse_inherited_processes: !browsed_stacks.insert(stack_name)
insert_fails(browsed_stacks, stack_name) == stack_name \in browsed_stacks

\* the innermost call of recurse_inherited_processes
Top == resolver.frames[Len(resolver.frames)]

\* the resolution returns an error
Fail(error) ==
  [resolver EXCEPT !.frames = <<>>, !.inherited_processes = {},
                   !.result = error]

\* State::refresh_stacks: recurse_inherited_processes(0, &inherits, ..) for
\* one stack of the file, with a new browsed_stacks
ResolveBegin(root) ==
  /\ resolver.result # "running"
  /\ root \in DOMAIN resolver.stacks
  /\ resolver' =
       [resolver EXCEPT
          !.root = root,
          !.frames = <<[recursion_level |-> 0,
                        stack_names |-> resolver.stacks[root].inherits]>>,
          !.browsed_stacks = {},
          !.inherited_processes = {},
          !.result = "running"]
  /\ UNCHANGED resolver_frame
  /\ UNCHANGED lifecycle_vars

\* variant: a stack that is already in browsed_stacks is skipped
ResolveLoopSkip(stack_name) ==
  /\ resolver.result = "running"
  /\ stack_name \in Top.stack_names
  /\ insert_fails(resolver.browsed_stacks, stack_name)
  /\ resolver' =
       [resolver EXCEPT
          !.frames[Len(resolver.frames)].stack_names = @ \ {stack_name}]
  /\ UNCHANGED resolver_frame
  /\ UNCHANGED lifecycle_vars

\* the loop meets a stack that is already in browsed_stacks
ResolveLoop(stack_name) ==
  /\ resolver.result = "running"
  /\ stack_name \in Top.stack_names
  /\ insert_fails(resolver.browsed_stacks, stack_name)
  /\ resolver' = Fail("RecursionLoop")
  /\ UNCHANGED resolver_frame
  /\ UNCHANGED lifecycle_vars

\* the loop meets a stack the file does not define
ResolveNotFound(stack_name) ==
  /\ resolver.result = "running"
  /\ stack_name \in Top.stack_names
  /\ ~insert_fails(resolver.browsed_stacks, stack_name)
  /\ stack_name \notin DOMAIN resolver.stacks
  /\ resolver' = Fail("StackNotFound")
  /\ UNCHANGED resolver_frame
  /\ UNCHANGED lifecycle_vars

\* the loop takes the processes of a stack and recurses into its inherits;
\* the call returns at once when its level is too deep
ResolveDescend(stack_name) ==
  LET n == Len(resolver.frames)
      stack == resolver.stacks[stack_name]
  IN
  /\ resolver.result = "running"
  /\ stack_name \in Top.stack_names
  /\ ~insert_fails(resolver.browsed_stacks, stack_name)
  /\ stack_name \in DOMAIN resolver.stacks
  /\ resolver' =
       IF too_deep(Top.recursion_level + 1)
         THEN Fail("RecursionDeepnessTooHigh")
         ELSE [resolver EXCEPT
                 !.browsed_stacks = @ \cup {stack_name},
                 !.inherited_processes = @ \cup stack.processes,
                 !.frames =
                   Append([@ EXCEPT ![n].stack_names = @ \ {stack_name}],
                          [recursion_level |-> Top.recursion_level + 1,
                           stack_names |-> stack.inherits])]
  /\ UNCHANGED resolver_frame
  /\ UNCHANGED lifecycle_vars

\* the loop of the innermost call is over: Ok(inherited_processes)
ResolveReturn ==
  /\ resolver.result = "running"
  /\ Top.stack_names = {}
  /\ resolver' =
       IF Len(resolver.frames) = 1
         THEN [resolver EXCEPT !.frames = <<>>, !.result = "ok"]
         ELSE [resolver EXCEPT
                 !.frames = SubSeq(@, 1, Len(resolver.frames) - 1)]
  /\ UNCHANGED resolver_frame
  /\ UNCHANGED lifecycle_vars

ResolverNames == Range(ChainNames) \cup GraphNames \cup {"x", "d"}

NextResolver ==
  \/ \E root \in ResolverNames : ResolveBegin(root)
  \/ \E stack_name \in ResolverNames : ResolveLoop(stack_name)
  \/ \E stack_name \in ResolverNames : ResolveNotFound(stack_name)
  \/ \E stack_name \in ResolverNames : ResolveDescend(stack_name)
  \/ ResolveReturn

SpecResolver == InitResolver /\ [][NextResolver]_vars

\* --------------------------------------------------- resolver properties
Resolved == resolver.result \notin {"idle", "running"}

\* the stacks a stack names in its inherits, none for an undefined stack
Inherits(stacks, s) == IF s \in DOMAIN stacks THEN stacks[s].inherits ELSE {}

\* the names reachable from `set` by following inherits
RECURSIVE ReachFrom(_, _, _)
ReachFrom(stacks, set, fuel) ==
  LET next == set \cup UNION {Inherits(stacks, s) : s \in set}
  IN IF fuel = 0 \/ next = set THEN set
     ELSE ReachFrom(stacks, next, fuel - 1)

\* the ancestors of a stack: what it inherits, directly or not
Ancestors(stacks, s) ==
  ReachFrom(stacks, Inherits(stacks, s), Cardinality(DOMAIN stacks) + 1)

\* the inheritance graph contains a cycle reachable from stack `root`
CycleReachable(stacks, root) ==
  \E s \in {root} \cup Ancestors(stacks, root) : s \in Ancestors(stacks, s)

\* number of ancestors of `s` when its inheritance is a chain that ends, -1
\* otherwise
RECURSIVE ChainLength(_, _, _)
ChainLength(stacks, s, fuel) ==
  IF fuel = 0 \/ s \notin DOMAIN stacks THEN -1
  ELSE IF stacks[s].inherits = {} THEN 0
  ELSE IF Cardinality(stacks[s].inherits) # 1 THEN -1
  ELSE LET rest == ChainLength(stacks,
                               CHOOSE t \in stacks[s].inherits : TRUE,
                               fuel - 1)
       IN IF rest < 0 THEN -1 ELSE rest + 1

RootChainLength ==
  ChainLength(resolver.stacks, resolver.root,
              Cardinality(DOMAIN resolver.stacks) + 1)

\* C19 as stated: resolving the inherited processes of a stack whose
\* inheritance graph contains a cycle reachable from it fails with
\* RecursionLoop.
C19_CycleIsRecursionLoop ==
  (Resolved /\ CycleReachable(resolver.stacks, resolver.root)) =>
    resolver.result = "RecursionLoop"

\* C19: resolving the inherited processes of a stack whose inheritance
\* graph contains a cycle reachable from it fails with RecursionLoop when
\* every ancestor of the stack is defined and the stack has at most
\* MAX_RECURSION_LEVEL ancestors; in every case the resolution fails.
C19_CycleFails ==
  (Resolved /\ CycleReachable(resolver.stacks, resolver.root)) =>
    /\ resolver.result # "ok"
    /\ (/\ Ancestors(resolver.stacks, resolver.root)
             \subseteq DOMAIN resolver.stacks
        /\ Cardinality(Ancestors(resolver.stacks, resolver.root))
             <= MAX_RECURSION_LEVEL) =>
         resolver.result = "RecursionLoop"

\* C19 witness: a inherits b and b inherits a, resolving a has failed
C19_Witness ==
  /\ resolver.result = "RecursionLoop"
  /\ resolver.root = "a"
  /\ resolver.stacks["a"].inherits = {"b"}
  /\ resolver.stacks["b"].inherits = {"a"}
  /\ resolver.stacks["c"].inherits = {}

\* C20: resolving a stack whose inheritance is a chain of exactly 10
\* ancestors succeeds, and resolving a stack whose inheritance is a chain of
\* 11 ancestors fails with RecursionDeepnessTooHigh.
C20_DepthLimit ==
  Resolved =>
    /\ RootChainLength = 10 => resolver.result = "ok"
    /\ RootChainLength = 11 => resolver.result = "RecursionDeepnessTooHigh"

\* C20 witness: a stack with a chain of 10 ancestors has been resolved to
\* the processes of all of them
C20_Witness ==
  /\ resolver.result = "ok"
  /\ RootChainLength = 10
  /\ resolver.root = "s00"
  /\ Cardinality(resolver.browsed_stacks) = 10
  /\ resolver.inherited_processes = {"eris", "harmonia"}

\* the processes the ancestors of a stack declare
AncestorProcesses(stacks, s) ==
  UNION {stacks[t].processes : t \in Ancestors(stacks, s) \cap DOMAIN stacks}

\* C30: for every stack of an acyclic configuration within the depth limit
\* the resolver returns as inherited_processes the union of the processes of
\* all its transitive ancestors and nothing else: the processes of the stack
\* itself are in it only when an ancestor declares them too.
C30_InheritedIsUnionOfAncestors ==
  (/\ Resolved
   /\ ~CycleReachable(resolver.stacks, resolver.root)
   /\ Ancestors(resolver.stacks, resolver.root) \subseteq DOMAIN resolver.stacks
   /\ Cardinality(Ancestors(resolver.stacks, resolver.root))
        <= MAX_RECURSION_LEVEL) =>
    /\ resolver.result = "ok"
    /\ resolver.inherited_processes =
         AncestorProcesses(resolver.stacks, resolver.root)

\* C38: RecursionLoop is reported only when the inheritance graph reachable
\* from the stack contains a cycle: a stack whose ancestors form an acyclic
\* diamond (it inherits b and c, which both inherit a) resolves to the
\* union of the processes of a, b and c.
C38_LoopOnlyOnCycle ==
  Resolved =>
    /\ resolver.result = "RecursionLoop" =>
         CycleReachable(resolver.stacks, resolver.root)
    /\ (resolver.stacks = Diamond /\ resolver.root = "d") =>
         /\ resolver.result = "ok"
         /\ resolver.inherited_processes = {"eris", "harmonia"}

\* ================================================= refresh on the database
MaxClock == 3     \* refresh calls of one run (the values Utc::now() takes)

\* the [[bin]] packages `cargo metadata` reports for the workspace
WorkspaceBinaries ==
  <<[name |-> "eris", id |-> "path+file:///eris"],
    [name |-> "harmonia", id |-> "path+file:///harmonia"]>>

\* jocker.yml as the user may leave it: absent; two stacks and a default;
\* a stack naming a process that `processes` omits; a default stack that
\* `stacks` omits
ConfigFiles ==
  {NoConfigFile,
   [exists |-> TRUE, default_stack |-> "base",
    stacks |-> [base |-> [inherits |-> {}, processes |-> {"eris"}],
                full |-> [inherits |-> {"base"},
                          processes |-> {"harmonia"}]],
    processes |-> [eris |-> NoStack, harmonia |-> NoStack]],
   [exists |-> TRUE, default_stack |-> NoStack,
    stacks |-> [base |-> [inherits |-> {}, processes |-> {"eris"}],
                s1 |-> [inherits |-> {}, processes |-> {"ghost"}]],
    processes |-> [eris |-> "harmonia"]],
   [exists |-> TRUE, default_stack |-> "full",
    stacks |-> [base |-> [inherits |-> {}, processes |-> {"eris"}]],
    processes |-> [eris |-> NoStack]]}

\* State::recurse_inherited_processes as a function; the set is iterated in
\* some order, which decides no more than which error a failing resolution
\* returns
RECURSIVE recurse_inherited_processes(_, _, _, _, _)
recurse_inherited_processes(recursion_level, stack_names, stacks, browsed_stacks, inherited_processes) ==
  IF too_deep(recursion_level)
    THEN [error |-> "RecursionDeepnessTooHigh",
          browsed_stacks |-> browsed_stacks, inherited_processes |-> {}]
  ELSE IF stack_names = {}
    THEN [error |-> "ok", browsed_stacks |-> browsed_stacks,
          inherited_processes |-> inherited_processes]
  ELSE
    LET stack_name == CHOOSE s \in stack_names : TRUE IN
    IF insert_fails(browsed_stacks, stack_name)
      THEN [error |-> "RecursionLoop", browsed_stacks |-> browsed_stacks,
            inherited_processes |-> {}]
    ELSE IF stack_name \notin DOMAIN stacks
      THEN [error |-> "StackNotFound", browsed_stacks |-> browsed_stacks,
            inherited_processes |-> {}]
    ELSE
      LET inner == recurse_inherited_processes(
                     recursion_level + 1, stacks[stack_name].inherits, stacks,
                     browsed_stacks \cup {stack_name},
                     inherited_processes \cup stacks[stack_name].processes)
      IN IF inner.error # "ok"
           THEN inner
           ELSE recurse_inherited_processes(
                  recursion_level, stack_names \ {stack_name}, stacks,
                  inner.browsed_stacks, inner.inherited_processes)

\* From<(String, ConfigProcess)> for Process: binary defaults to the name
ProcessOfConfig(name, binary) ==
  [name |-> name, binary |-> IF binary = NoStack THEN name ELSE binary,
   state |-> "Stopped", pid |-> NoPid]

\* Process::new(b.name(), b.name()) for a binary of the store
ProcessOfBinary(b) ==
  [name |-> b.name, binary |-> b.name, state |-> "Stopped", pid |-> NoPid]

\* State::reconcile_pids for every stored process: a process whose pid is
\* not among the live pids becomes Stopped with no pid
reconcile_pids(d, live) ==
  [d EXCEPT !.process =
     [i \in 1..Len(@) |->
        IF @[i].pid # NoPid /\ @[i].pid \notin live
          THEN [@[i] EXCEPT !.state = to_string("Stopped"), !.pid = NoPid]
          ELSE @[i]]]

\* State::set_binaries: DELETE FROM binary, then one INSERT per binary
state_set_binaries(d, binaries) ==
  [delete_binaries(d) EXCEPT !.binary = binaries]

\* variant: the rebuilt process is stored as constructed
keep_nothing(previous, p) == p

\* State::refresh_processes, lines 626-634: a rebuilt process takes the pid
\* and the status of the stored process of the same name
keep_runtime(previous, p) ==
  IF p.name \in DOMAIN previous
    THEN [p EXCEPT !.pid = previous[p.name].pid,
                   !.state = previous[p.name].state]
    ELSE p

\* State::refresh_processes: the processes of the config file, or one per
\* stored binary without a file, each with the status and pid of the stored
\* process of the same name; then State::set_processes (DELETE FROM process,
\* one INSERT per process).  Rows are kept in name order.
state_refresh_processes(d, config) ==
  LET previous == [n \in RowNames(d.process) |->
                     ProcessFromSql(CHOOSE r \in Range(d.process) :
                                      r.name = n)]
      fresh == IF config.exists
                 THEN {ProcessOfConfig(n, config.processes[n]) :
                         n \in DOMAIN config.processes}
                 ELSE {ProcessOfBinary(b) : b \in Range(d.binary)}
      merged == {keep_runtime(previous, p) : p \in fresh}
      order == SelectSeqBy(ProcessOrder, {p.name : p \in merged})
  IN [delete_processes(d) EXCEPT !.process =
        [i \in 1..Len(order) |->
           ProcessSqlOf(CHOOSE p \in merged : p.name = order[i])]]

\* State::refresh_stacks, lines 642-670: the Stack of every stack of the
\* file, or the first error of the resolver
resolve_stacks(config) ==
  LET names == DOMAIN config.stacks
      res == [s \in names |->
                recurse_inherited_processes(0, config.stacks[s].inherits,
                                            config.stacks, {}, {})]
      bad == {s \in names : res[s].error # "ok"}
  IN IF bad # {}
       THEN [error |-> res[CHOOSE s \in bad : TRUE].error, stacks |-> {}]
       ELSE [error |-> "ok",
             stacks |-> {[name |-> s,
                          processes |-> config.stacks[s].processes,
                          inherited_processes |->
                            res[s].inherited_processes] : s \in names}]

\* ------------------------------------------------- the steps of a refresh
InitRefresh ==
  /\ LifecycleIdle
  /\ processes = InitProcesses
  /\ current_stack = NoStack
  /\ ps = NoPs
  /\ db = EmptyDb
  /\ call = NoCall
  /\ resolver = NoResolver
  /\ refresh \in {[NoRefresh EXCEPT !.config = c] : c \in ConfigFiles}
  /\ pueue = NoPueue
  /\ logs = NoLogs
  /\ pure = NoPure
  /\ locks = NoLocks

refresh_frame == <<processes, current_stack, ps, call, resolver, pueue, logs,
                   pure, locks>>

\* State::refresh returns `res`, leaving the database as `d`
RefreshReturn(res, missing, d) ==
  [refresh EXCEPT !.pc = "done", !.res = res, !.missing = missing,
                  !.todo = {},
                  !.last = IF refresh.hard THEN [some |-> TRUE, db |-> d]
                                               ELSE NoLast]

\* State::refresh, lines 524-528: get_user_pids, then reconcile_pids for
\* every stored process
StateRefreshBegin(hard, needs_binaries, needs_config) ==
  /\ refresh.pc = "done"
  /\ refresh.now < MaxClock
  /\ db' = reconcile_pids(db, refresh.user_pids)
  /\ refresh' = [refresh EXCEPT
                   !.pc = "binaries", !.hard = hard,
                   !.needs_binaries = needs_binaries,
                   !.needs_config = needs_config,
                   !.res = "running", !.missing = {}, !.now = @ + 1,
                   !.pre = db,
                   !.first = IF hard THEN refresh.last ELSE NoLast,
                   !.last = NoLast]
  /\ UNCHANGED refresh_frame
  /\ UNCHANGED lifecycle_vars

\* State::refresh, lines 530-533: refresh_binaries (which fetches and
\* replaces the binaries only when hard) and set_binaries_updated_at
StateRefreshBinaries ==
  /\ refresh.pc = "binaries"
  /\ db' = IF refresh.hard \/ refresh.needs_binaries
             THEN [(IF refresh.hard
                      THEN state_set_binaries(db, WorkspaceBinaries)
                      ELSE db)
                   EXCEPT !.binaries_updated_at = refresh.now]
             ELSE db
  /\ refresh' = [refresh EXCEPT !.pc = "config"]
  /\ UNCHANGED refresh_frame
  /\ UNCHANGED lifecycle_vars

\* State::refresh, lines 534-535 and 542: refresh_processes, or Ok(()) when
\* the config is not to be refreshed
StateRefreshProcesses ==
  /\ refresh.pc = "config"
  /\ IF refresh.hard \/ refresh.needs_config
       THEN /\ db' = state_refresh_processes(db, refresh.config)
            /\ refresh' = [refresh EXCEPT !.pc = "stacks"]
       ELSE /\ db' = db
            /\ refresh' = RefreshReturn("ok", {}, db)
  /\ UNCHANGED refresh_frame
  /\ UNCHANGED lifecycle_vars

\* State::refresh_stacks up to the DELETE FROM stack of State::set_stacks:
\* the resolver's error, StackNotFound for a default stack the file does
\* not define, or every stored stack deleted
StateRefreshStacks ==
  LET r == resolve_stacks(refresh.config)
      default_stack == refresh.config.default_stack
  IN
  /\ refresh.pc = "stacks"
  /\ IF r.error # "ok"
       THEN db' = db /\ refresh' = RefreshReturn(r.error, {}, db)
     ELSE IF /\ default_stack # NoStack
             /\ default_stack \notin {st.name : st \in r.stacks}
       THEN db' = db /\ refresh' = RefreshReturn("StackNotFound", {}, db)
     ELSE /\ db' = delete_stacks(db)
          /\ refresh' = [refresh EXCEPT !.pc = "set_stacks",
                                        !.todo = r.stacks]
  /\ UNCHANGED refresh_frame
  /\ UNCHANGED lifecycle_vars

\* State::set_stacks, one round of `for stack in stacks` (the Vec comes from
\* HashMap::values, in any order): ProcessNotFound with the processes of the
\* stack that are not stored, or the stack and its rows inserted
StateSetStacksStack(stack) ==
  LET stack_processes == stack.processes \cup stack.inherited_processes
      missing_processes == stack_processes \ RowNames(db.process)
  IN
  /\ refresh.pc = "set_stacks"
  /\ stack \in refresh.todo
  /\ IF missing_processes # {}
       THEN /\ db' = db
            /\ refresh' = RefreshReturn("ProcessNotFound", missing_processes,
                                        db)
       ELSE /\ db' = [db EXCEPT
                        !.stack = @ \cup {stack.name},
                        !.rel_stack_process =
                          @ \cup {<<stack.name, p>> : p \in stack_processes}]
            /\ refresh' = [refresh EXCEPT !.todo = @ \ {stack}]
  /\ UNCHANGED refresh_frame
  /\ UNCHANGED lifecycle_vars

\* State::refresh_stacks, line 682, and State::refresh, lines 538-542:
\* set_default_stack, set_config_updated_at, Ok(())
StateSetDefaultStack ==
  LET d == [db EXCEPT !.default_stack = refresh.config.default_stack,
                      !.config_updated_at = refresh.now]
  IN
  /\ refresh.pc = "set_stacks"
  /\ refresh.todo = {}
  /\ db' = d
  /\ refresh' = RefreshReturn("ok", {}, d)
  /\ UNCHANGED refresh_frame
  /\ UNCHANGED lifecycle_vars

\* the user edits, creates or deletes jocker.yml between two commands
EditConfig(config) ==
  /\ refresh.pc = "done"
  /\ config # refresh.config
  /\ refresh' = [refresh EXCEPT !.config = config, !.last = NoLast,
                                !.first = NoLast]
  /\ UNCHANGED db
  /\ UNCHANGED refresh_frame
  /\ UNCHANGED lifecycle_vars

\* a start between two refreshes: the stored process is Running with the
\* pid of its task, which is alive
ProcessStarted(name) ==
  /\ refresh.pc = "done"
  /\ \E i \in 1..Len(db.process) :
       /\ db.process[i].name = name
       /\ db.process[i].pid = NoPid
       /\ db' = [db EXCEPT !.process[i].state = to_string("Running"),
                           !.process[i].pid = Rank(name)]
  /\ refresh' = [refresh EXCEPT !.user_pids = @ \cup {Rank(name)},
                                !.last = NoLast, !.first = NoLast]
  /\ UNCHANGED refresh_frame
  /\ UNCHANGED lifecycle_vars

\* a start between two refreshes that went no further than Start::exec,
\* lines 112-116: the stored process is Building, with the pid it had
StartMarked(name) ==
  /\ refresh.pc = "done"
  /\ \E i \in 1..Len(db.process) :
       /\ db.process[i].name = name
       /\ db.process[i].state # to_string("Building")
       /\ db' = [db EXCEPT !.process[i].state = to_string("Building")]
  /\ refresh' = [refresh EXCEPT !.last = NoLast, !.first = NoLast]
  /\ UNCHANGED refresh_frame
  /\ UNCHANGED lifecycle_vars

\* a process of the user exits between two refreshes
PidExited(pid) ==
  /\ refresh.pc = "done"
  /\ pid \in refresh.user_pids
  /\ refresh' = [refresh EXCEPT !.user_pids = @ \ {pid}, !.last = NoLast,
                                !.first = NoLast]
  /\ UNCHANGED db
  /\ UNCHANGED refresh_frame
  /\ UNCHANGED lifecycle_vars

\* every Stack a refresh may hand to set_stacks
ResolvedStacks ==
  UNION {resolve_stacks(c).stacks : c \in ConfigFiles}

NextRefresh ==
  \/ \E hard \in BOOLEAN, needs_binaries \in BOOLEAN,
        needs_config \in BOOLEAN :
       StateRefreshBegin(hard, needs_binaries, needs_config)
  \/ StateRefreshBinaries
  \/ StateRefreshProcesses
  \/ StateRefreshStacks
  \/ \E stack \in ResolvedStacks : StateSetStacksStack(stack)
  \/ StateSetDefaultStack
  \/ \E config \in ConfigFiles : EditConfig(config)
  \/ \E name \in ProcessNames : ProcessStarted(name)
  \/ \E name \in ProcessNames : StartMarked(name)
  \/ \E pid \in 1..Len(ProcessOrder) : PidExited(pid)

SpecRefresh == InitRefresh /\ [][NextRefresh]_vars

\* -------------------------------------------- properties of the refresh
\* State::refresh with hard = true has returned
HardRefreshDone ==
  refresh.pc = "done" /\ refresh.hard /\ refresh.res # "none"

\* processes a stack of the file names and `processes` of the file omits
Omitted(config) ==
  IF config.exists
    THEN UNION {config.stacks[s].processes : s \in DOMAIN config.stacks}
           \ DOMAIN config.processes
    ELSE {}

\* the store without the two timestamps of metadata
Content(d) ==
  [d EXCEPT !.binaries_updated_at = NoDate, !.config_updated_at = NoDate]

\* C21: when the config declares a stack that references a process missing
\* from `processes`, refresh(hard = true) fails with ProcessNotFound naming
\* that process, and the whole store (binaries, processes, stacks, default
\* stack, timestamps) is the same as before the refresh.
C21_RefreshFailureKeepsStore ==
  (HardRefreshDone /\ Omitted(refresh.config) # {}) =>
    /\ refresh.res = "ProcessNotFound"
    /\ refresh.missing = Omitted(refresh.config)
    /\ db = refresh.pre

\* C22: two consecutive refresh(hard = true) calls with nothing changed in
\* between leave the same binaries, processes (with state and pid), stacks
\* and default stack after the second call as after the first.
C22_RefreshIdempotent ==
  (HardRefreshDone /\ refresh.first.some) =>
    Content(db) = Content(refresh.first.db)

\* the stored row of a process is the one its task gives: the pid of the
\* task and Running while the task is alive, no pid and Stopped otherwise
Reconciled(row, live) ==
  IF Rank(row.name) \in live
    THEN row.pid = Rank(row.name) /\ row.state = to_string("Running")
    ELSE row.pid = NoPid /\ row.state = to_string("Stopped")

\* C31: the first step of every refresh, soft or hard, leaves each stored
\* process with the handle and the state of its task when the scheduler
\* reports one under its label, and with no pid and Stopped otherwise,
\* whatever state and pid were stored before.
C31_ReconcileEveryProcess ==
  refresh.pc = "binaries" =>
    \A i \in 1..Len(db.process) :
      Reconciled(db.process[i], refresh.user_pids)

\* C32: a config refresh keeps the runtime fields of the surviving
\* processes: every rebuilt process whose name was stored has the pid and
\* the state it had just before the rebuild, a process whose name is new is
\* Stopped with no pid.
C32_RebuildKeepsRuntime ==
  [][(refresh.pc = "config" /\ refresh'.pc = "stacks") =>
       \A i \in 1..Len(db'.process) :
         LET row == db'.process[i]
             before == {r \in Range(db.process) : r.name = row.name}
         IN IF before # {}
              THEN \A r \in before : row.pid = r.pid /\ row.state = r.state
              ELSE row.pid = NoPid /\ row.state = to_string("Stopped")]_vars

\* C32 witness: a rebuild has kept a running process and stored a process
\* that was not there when the refresh began
C32_Witness ==
  /\ refresh.pc = "stacks"
  /\ \E r \in Range(db.process) :
       /\ r.pid # NoPid
       /\ r.state = to_string("Running")
       /\ r \in Range(refresh.pre.process)
  /\ \E r \in Range(db.process) : r.name \notin RowNames(refresh.pre.process)

\* C33: whenever refresh stamps binaries_updated_at, the stored binaries
\* have been replaced by what the workspace holds: the timestamp never
\* advances without the binaries having been discovered again.
C33_StampAfterDiscovery ==
  [][db'.binaries_updated_at # db.binaries_updated_at =>
       db'.binary = WorkspaceBinaries]_vars

\* ====================================================== the scheduler client
MaxCallers == 2   \* concurrent callers of the scheduler client
MaxGroup == 2     \* tasks the group of the scheduler client may hold

\* TaskStatus of pueue_lib, as far as the client distinguishes them
TaskStatus == {"Queued", "Running", "Paused", "Done"}

Callers == 1..MaxCallers

\* task ids a caller may name
PueueTaskIds == 1..MaxGroup

InitPueue ==
  /\ LifecycleIdle
  /\ processes = InitProcesses
  /\ current_stack = NoStack
  /\ ps = NoPs
  /\ db = EmptyDb
  /\ call = NoCall
  /\ resolver = NoResolver
  /\ refresh = NoRefresh
  /\ pueue = [NoPueue EXCEPT !.calls = [c \in Callers |-> NoPueueCall]]
  /\ logs = NoLogs
  /\ pure = NoPure
  /\ locks = NoLocks

pueue_frame == <<processes, current_stack, ps, db, call, resolver, refresh,
                 logs, pure, locks>>

\* the caller is in no call of the client
Idle(c) == pueue.calls[c].pc = "done"

\* the status the daemon reports for a task id in Response::Status
StatusOf(t) ==
  IF t \in 1..Len(pueue.tasks) THEN pueue.tasks[t].status ELSE "missing"

\* variant: the first status reported ends the wait
reached_any(kind, status) == status # "missing"

\* Pueue::start, lines 82-85, and Pueue::stop, line 263: the status that
\* ends the polling loop
reached(kind, status) ==
  \/ kind = "start" /\ status = "Running"
  \/ kind = "stop" /\ status = "Done"

\* Pueue::start, lines 61-71: lock the client and send Request::Add; the
\* daemon queues the task unless it answers with a failure
StartAdd(c, outcome) ==
  /\ Idle(c)
  /\ pueue.lock = 0
  /\ Len(pueue.tasks) < MaxGroup
  /\ pueue' =
       [pueue EXCEPT
          !.lock = c,
          !.tasks = IF outcome = "AddedTask"
                      THEN Append(@, [status |-> "Queued",
                                      reported |-> {}])
                      ELSE @,
          !.calls[c] = [NoPueueCall EXCEPT
                          !.op = "start", !.pc = "add_rsp",
                          !.task = IF outcome = "AddedTask"
                                     THEN Len(pueue.tasks) + 1 ELSE 0]]
  /\ UNCHANGED pueue_frame
  /\ UNCHANGED lifecycle_vars

\* Pueue::start, lines 72-81: the response; Err for anything but AddedTask,
\* else the lock is dropped and the polling begins
StartAdded(c) ==
  /\ pueue.calls[c].op = "start" /\ pueue.calls[c].pc = "add_rsp"
  /\ pueue' =
       [pueue EXCEPT
          !.lock = 0,
          !.calls[c] = IF pueue.calls[c].task = 0
                         THEN [@ EXCEPT !.pc = "done", !.res = "Err"]
                         ELSE [@ EXCEPT !.pc = "poll"]]
  /\ UNCHANGED pueue_frame
  /\ UNCHANGED lifecycle_vars

\* Pueue::stop, lines 244-255: lock the client and send Request::Kill for a
\* task id; a daemon that accepts it signals the task
StopKill(c, pid, outcome) ==
  /\ Idle(c)
  /\ pueue.lock = 0
  /\ pueue' =
       [pueue EXCEPT
          !.lock = c,
          !.calls[c] = [NoPueueCall EXCEPT
                          !.op = "stop", !.pc = "kill_rsp", !.task = pid,
                          !.seen = outcome]]
  /\ UNCHANGED pueue_frame
  /\ UNCHANGED lifecycle_vars

\* Pueue::stop, lines 256-262: the response; Err unless it is a success,
\* else the lock is dropped and the polling begins
StopKilled(c) ==
  /\ pueue.calls[c].op = "stop" /\ pueue.calls[c].pc = "kill_rsp"
  /\ pueue' =
       [pueue EXCEPT
          !.lock = 0,
          !.calls[c] = IF pueue.calls[c].seen = "Success"
                         THEN [@ EXCEPT !.pc = "poll", !.seen = "none"]
                         ELSE [@ EXCEPT !.pc = "done", !.res = "Err",
                                        !.seen = "none"]]
  /\ UNCHANGED pueue_frame
  /\ UNCHANGED lifecycle_vars

\* Pueue::processes: lock the client and send Request::Status
StatusRequest(c) ==
  /\ Idle(c)
  /\ pueue.lock = 0
  /\ pueue' =
       [pueue EXCEPT
          !.lock = c,
          !.calls[c] = [NoPueueCall EXCEPT !.op = "status",
                                           !.pc = "status_rsp"]]
  /\ UNCHANGED pueue_frame
  /\ UNCHANGED lifecycle_vars

\* Pueue::process_status of the polling loops: lock the client and send
\* Request::Status; the daemon reports the status the task has now
PollStatus(c) ==
  LET t == pueue.calls[c].task IN
  /\ pueue.calls[c].pc = "poll"
  /\ pueue.lock = 0
  /\ pueue' =
       [pueue EXCEPT
          !.lock = c,
          !.tasks = IF t \in 1..Len(@)
                      THEN [@ EXCEPT ![t].reported =
                                       @ \cup {pueue.tasks[t].status}]
                      ELSE @,
          !.calls[c] = [@ EXCEPT !.pc = "status_rsp", !.seen = StatusOf(t)]]
  /\ UNCHANGED pueue_frame
  /\ UNCHANGED lifecycle_vars

\* Pueue::processes_by_pid, lines 108-123, and the test of the polling
\* loop: the lock is dropped with the response; an unknown task id is an
\* Err, the awaited status ends the call, any other status sleeps
StatusResponse(c) ==
  LET this == pueue.calls[c] IN
  /\ this.pc = "status_rsp"
  /\ pueue' =
       [pueue EXCEPT
          !.lock = 0,
          !.calls[c] =
            IF this.op = "status"
              THEN [@ EXCEPT !.pc = "done", !.res = "Ok"]
            ELSE IF this.seen = "missing"
              THEN [@ EXCEPT !.pc = "done", !.res = "Err"]
            ELSE IF reached(this.op, this.seen)
              THEN [@ EXCEPT !.pc = "done", !.res = "Ok"]
            ELSE [@ EXCEPT !.pc = "poll"]]
  /\ UNCHANGED pueue_frame
  /\ UNCHANGED lifecycle_vars

\* Pueue::log, lines 161-170: lock the client and send the LogRequest; the
\* lock is held until the lines of the response are sent to the sink
LogRequest(c, pid) ==
  /\ Idle(c)
  /\ pueue.lock = 0
  /\ pueue' =
       [pueue EXCEPT
          !.lock = c,
          !.calls[c] = [NoPueueCall EXCEPT !.op = "log", !.pc = "log_rsp",
                                           !.task = pid]]
  /\ UNCHANGED pueue_frame
  /\ UNCHANGED lifecycle_vars

\* Pueue::log, lines 171-193: Ok after the lines of Response::Log, Err for
\* any other response
LogResponse(c, response) ==
  /\ pueue.calls[c].op = "log" /\ pueue.calls[c].pc = "log_rsp"
  /\ response = "Log" <=> pueue.calls[c].task \in 1..Len(pueue.tasks)
  /\ pueue' =
       [pueue EXCEPT
          !.lock = 0,
          !.calls[c] = [@ EXCEPT !.pc = "done",
                                 !.res = IF response = "Log" THEN "Ok"
                                                             ELSE "Err"]]
  /\ UNCHANGED pueue_frame
  /\ UNCHANGED lifecycle_vars

\* variant: the stream request goes through the client behind the mutex
FollowOpenShared(c, pid) ==
  /\ Idle(c)
  /\ pueue.lock = 0
  /\ pueue' =
       [pueue EXCEPT
          !.lock = c,
          !.calls[c] = [NoPueueCall EXCEPT !.op = "follow", !.pc = "stream",
                                           !.task = pid]]
  /\ UNCHANGED pueue_frame
  /\ UNCHANGED lifecycle_vars

\* Pueue::follow, lines 203-210: a client of its own, then the
\* StreamRequest on it
FollowOpen(c, pid) ==
  /\ Idle(c)
  /\ pueue' =
       [pueue EXCEPT
          !.calls[c] = [NoPueueCall EXCEPT !.op = "follow", !.pc = "stream",
                                           !.task = pid]]
  /\ UNCHANGED pueue_frame
  /\ UNCHANGED lifecycle_vars

\* Pueue::follow, lines 212-240: one response of the stream.  The daemon
\* sends Stream while the task has output, Close once the task is Done and
\* Failure for a task it does not know.
FollowReceive(c, response) ==
  LET this == pueue.calls[c] IN
  /\ this.op = "follow" /\ this.pc = "stream"
  /\ response = "Failure" <=> StatusOf(this.task) = "missing"
  /\ response = "Close" => StatusOf(this.task) = "Done"
  /\ pueue' =
       [pueue EXCEPT
          !.calls[c] =
            CASE response = "Stream" -> [@ EXCEPT !.seen = "Stream"]
              [] response = "Close" ->
                   [@ EXCEPT !.pc = "done", !.res = "Ok", !.closed = TRUE]
              [] OTHER -> [@ EXCEPT !.pc = "done", !.res = "Err"]]
  /\ UNCHANGED pueue_frame
  /\ UNCHANGED lifecycle_vars

\* the daemon starts a queued task
DaemonRun(t) ==
  /\ t \in 1..Len(pueue.tasks)
  /\ pueue.tasks[t].status = "Queued"
  /\ pueue' = [pueue EXCEPT !.tasks[t].status = "Running"]
  /\ UNCHANGED pueue_frame
  /\ UNCHANGED lifecycle_vars

\* the process of a running task ends, killed or by itself
DaemonDone(t) ==
  /\ t \in 1..Len(pueue.tasks)
  /\ pueue.tasks[t].status = "Running"
  /\ pueue' = [pueue EXCEPT !.tasks[t].status = "Done"]
  /\ UNCHANGED pueue_frame
  /\ UNCHANGED lifecycle_vars

NextPueue ==
  \/ \E c \in Callers, outcome \in {"AddedTask", "Failure"} :
       StartAdd(c, outcome)
  \/ \E c \in Callers : StartAdded(c)
  \/ \E c \in Callers, pid \in PueueTaskIds, outcome \in {"Success", "Failure"} :
       StopKill(c, pid, outcome)
  \/ \E c \in Callers : StopKilled(c)
  \/ \E c \in Callers : StatusRequest(c)
  \/ \E c \in Callers : PollStatus(c)
  \/ \E c \in Callers : StatusResponse(c)
  \/ \E c \in Callers, pid \in PueueTaskIds : LogRequest(c, pid)
  \/ \E c \in Callers, response \in {"Log", "Failure"} :
       LogResponse(c, response)
  \/ \E c \in Callers, pid \in PueueTaskIds : FollowOpen(c, pid)
  \/ \E c \in Callers, response \in {"Stream", "Close", "Failure"} :
       FollowReceive(c, response)
  \/ \E t \in PueueTaskIds : DaemonRun(t)
  \/ \E t \in PueueTaskIds : DaemonDone(t)

SpecPueue == InitPueue /\ [][NextPueue]_vars

\* the scheduling the client runs under: a caller that holds the client
\* mutex gets the daemon's response and releases it, the tokio mutex is
\* fair, so a poller that keeps asking for it gets it (sleep of 100 ms,
\* then lock), and the daemon starts every task it has queued
FairPueue ==
  /\ \A c \in Callers :
       /\ WF_vars(StartAdded(c))
       /\ WF_vars(StopKilled(c))
       /\ WF_vars(StatusResponse(c))
       /\ WF_vars(\E response \in {"Log", "Failure"} : LogResponse(c, response))
       /\ SF_vars(PollStatus(c))
  /\ \A t \in PueueTaskIds : WF_vars(DaemonRun(t))

SpecPueueFair == SpecPueue /\ FairPueue

\* ------------------------------------ properties of the scheduler client
\* a call of the client has returned Ok
ReturnedOk(c, kind) ==
  /\ pueue.calls[c].op = kind
  /\ pueue.calls[c].pc = "done"
  /\ pueue.calls[c].res = "Ok"

\* the daemon has reported `status` for the task of the call, and it is the
\* status the call saw last
Observed(c, status) ==
  LET this == pueue.calls[c] IN
  /\ this.task \in 1..Len(pueue.tasks)
  /\ this.seen = status
  /\ status \in pueue.tasks[this.task].reported

\* C40: Pueue::start eventually returns, a task id or an error, for every
\* task it submitted, under fair scheduling of the daemon and of the poller,
\* also for a task that exits and is Done before a poll has seen it Running.
C40_StartReturns ==
  \A c \in Callers :
    (pueue.calls[c].op = "start" /\ pueue.calls[c].pc = "add_rsp")
      ~> (pueue.calls[c].op = "start" /\ pueue.calls[c].pc = "done")

\* C23: Pueue::start returns a task id only after the daemon has reported
\* that task Running, and Pueue::stop returns Ok only after the daemon has
\* reported the task Done; neither returns Ok before it observed the
\* transition it asked for.
C23_SynchronousBoundary ==
  \A c \in Callers :
    /\ ReturnedOk(c, "start") => Observed(c, "Running")
    /\ ReturnedOk(c, "stop") => Observed(c, "Done")

\* C23 witness: one caller has started task 1 and the other has stopped it
C23_Witness ==
  /\ ReturnedOk(1, "start") /\ pueue.calls[1].task = 1
  /\ ReturnedOk(2, "stop") /\ pueue.calls[2].task = 1
  /\ pueue.tasks[1].reported = {"Running", "Done"}

\* the sections of a call in which it holds the mutex of the client
Locked == {"add_rsp", "kill_rsp", "status_rsp", "log_rsp"}

\* C26: a follow stream has a connection of its own and never holds the
\* mutex of the primary connection: the mutex is held only by a start,
\* stop, status or log call between its request and its response, whatever
\* number of follow streams is open; and a follow stream returns Ok only
\* when the daemon has sent Close.
C26_FollowOwnConnection ==
  /\ \A c \in Callers :
       pueue.lock = c =>
         /\ pueue.calls[c].op \in {"start", "stop", "status", "log"}
         /\ pueue.calls[c].pc \in Locked
  /\ \A c \in Callers :
       ReturnedOk(c, "follow") =>
         pueue.calls[c].closed

\* C26 witness: while the follow stream of caller 1 is open on the running
\* task 1, caller 2 holds the mutex for the Kill request of a stop
C26_Witness ==
  /\ pueue.calls[1].op = "follow" /\ pueue.calls[1].pc = "stream"
  /\ pueue.calls[1].task = 1 /\ pueue.calls[1].seen = "Stream"
  /\ StatusOf(1) = "Running"
  /\ pueue.lock = 2
  /\ pueue.calls[2].op = "stop" /\ pueue.calls[2].pc = "kill_rsp"

\* ===================================================================== logs
MaxLines == 3     \* lines the log of a task may come to hold
MaxHistory == 2   \* lines the log of a task holds when logs is called

\* the processes filter_processes may return to Logs::run, with what the
\* store and the daemon hold for each: the stored pid ("some", "none", or
\* "stale" for a task the daemon no longer knows), the lines of its log so
\* far, whether the task has ended
LogTasks ==
  [pid : {"some", "none", "stale"}, history : 0..MaxHistory,
   len : 0..MaxHistory, ended : {FALSE}]

\* the fetcher of a process before it has run
Spawned == [pc |-> "spawned", res |-> "none", cursor |-> 0, upto |-> 0]

InitLogs ==
  /\ LifecycleIdle
  /\ processes = InitProcesses
  /\ current_stack = NoStack
  /\ ps = NoPs
  /\ db = EmptyDb
  /\ call = NoCall
  /\ resolver = NoResolver
  /\ refresh = NoRefresh
  /\ pueue = NoPueue
  /\ pure = NoPure
  /\ locks = NoLocks
  /\ \E follow \in BOOLEAN, tail \in BOOLEAN, caller \in {"exec", "test"},
        names \in SUBSET ProcessNames \ {{}} :
       \E task \in [names -> LogTasks] :
         /\ \A n \in names : task[n].history = task[n].len
         /\ caller = "test" => ~follow /\ ~tail
         /\ logs = [NoLogs EXCEPT !.follow = follow, !.tail = tail,
                                  !.selected = names, !.task = task,
                                  !.caller = caller]

logs_frame == <<processes, current_stack, ps, db, call, resolver, refresh,
                pueue, pure, locks>>

\* mpsc::channel(processes.len() * 2)
capacity == Cardinality(logs.selected) * 2

\* variant: a send never waits
has_permit_always(chan) == TRUE

\* Sender::send completes when the channel holds fewer messages than its
\* capacity, and waits otherwise
has_permit(chan) == Len(chan) < capacity

\* Logs::run: one fetcher is spawned per selected process
LogsRun ==
  /\ logs.pc = "idle"
  /\ logs' = [logs EXCEPT !.pc = "running",
                          !.fetch = [n \in logs.selected |-> Spawned]]
  /\ UNCHANGED logs_frame
  /\ UNCHANGED lifecycle_vars

\* the fetcher `run`, lines 86-107 and Pueue::logs: with tail nothing is
\* requested; else a stored pid is needed, and follow opens a stream on a
\* client of its own while the other case locks the client for a LogRequest
\* whose response holds the lines of the log so far
FetchBegin(n) ==
  LET this == logs.fetch[n]
      task == logs.task[n]
  IN
  /\ n \in logs.selected
  /\ logs.pc = "running"
  /\ this.pc = "spawned"
  /\ IF logs.tail
       THEN logs' = [logs EXCEPT !.fetch[n].pc = "after"]
     ELSE IF task.pid = "none"
       THEN logs' = [logs EXCEPT !.fetch[n].pc = "done",
                                 !.fetch[n].res = "Err"]
     ELSE IF logs.follow
       THEN logs' = [logs EXCEPT !.fetch[n].pc = "stream"]
     ELSE /\ logs.lock = NoStack
          /\ logs' = [logs EXCEPT !.lock = n, !.fetch[n].pc = "log",
                                  !.fetch[n].upto = task.len]
  /\ UNCHANGED logs_frame
  /\ UNCHANGED lifecycle_vars

\* log_tx.send(format!("{process_prefix}{}", line)).await of Pueue::log and
\* Pueue::follow: the next line of the response goes into the channel
FetchSend(n) ==
  LET this == logs.fetch[n] IN
  /\ n \in logs.selected
  /\ logs.pc = "running"
  /\ this.pc \in {"log", "stream"}
  /\ logs.task[n].pid = "some"
  /\ this.cursor < this.upto
  /\ has_permit(logs.chan)
  /\ logs' = [logs EXCEPT !.chan = Append(@, <<n, this.cursor + 1>>),
                          !.fetch[n].cursor = @ + 1]
  /\ UNCHANGED logs_frame
  /\ UNCHANGED lifecycle_vars

\* Pueue::log, lines 171-193: after the last line of Response::Log, or at
\* once for any other response, the lock is dropped
LogReturn(n) ==
  LET this == logs.fetch[n] IN
  /\ n \in logs.selected
  /\ logs.pc = "running"
  /\ this.pc = "log"
  /\ IF logs.task[n].pid = "stale"
       THEN logs' = [logs EXCEPT !.lock = NoStack, !.fetch[n].pc = "done",
                                 !.fetch[n].res = "Err"]
       ELSE /\ this.cursor = this.upto
            /\ logs' = [logs EXCEPT !.lock = NoStack,
                                    !.fetch[n].pc = "after"]
  /\ UNCHANGED logs_frame
  /\ UNCHANGED lifecycle_vars

\* Pueue::follow, lines 212-239: the next response of the stream, once the
\* lines of the one before are sent.  The daemon sends the lines the log
\* has gained, Close when the task has ended and nothing is left, Failure
\* for a task it does not know.
StreamReceive(n, response) ==
  LET this == logs.fetch[n]
      task == logs.task[n]
  IN
  /\ n \in logs.selected
  /\ logs.pc = "running"
  /\ this.pc = "stream"
  /\ this.cursor = this.upto
  /\ response = "Failure" <=> task.pid = "stale"
  /\ response = "Stream" => task.len > this.upto
  /\ response = "Close" => task.ended /\ task.len = this.upto
  /\ logs' =
       CASE response = "Stream" -> [logs EXCEPT !.fetch[n].upto = task.len]
         [] response = "Close" -> [logs EXCEPT !.fetch[n].pc = "after"]
         [] OTHER -> [logs EXCEPT !.fetch[n].pc = "done",
                                  !.fetch[n].res = "Err"]
  /\ UNCHANGED logs_frame
  /\ UNCHANGED lifecycle_vars

\* the fetcher `run`, lines 116-157: Ok(()), with or without follow
FetchReturn(n) ==
  /\ n \in logs.selected
  /\ logs.pc = "running"
  /\ logs.fetch[n].pc = "after"
  /\ logs' = [logs EXCEPT !.fetch[n].pc = "done", !.fetch[n].res = "Ok"]
  /\ UNCHANGED logs_frame
  /\ UNCHANGED lifecycle_vars

\* tests/test_lifecycle.rs, lines 23-50: the test calls Logs::run itself,
\* then Stop::exec, then joins the fetchers, and only then receives
stopped_and_joined ==
  /\ logs.stop \in {"done", "skipped"}
  /\ \A n \in logs.selected : logs.fetch[n].pc = "done"

\* Logs::exec, lines 63-65: rx.recv() yields the oldest message, which is
\* printed
Recv ==
  /\ logs.pc = "running"
  /\ logs.chan # <<>>
  /\ logs.caller = "test" => stopped_and_joined
  /\ logs' = [logs EXCEPT !.chan = Tail(@),
                          !.printed = Append(@, Head(logs.chan))]
  /\ UNCHANGED logs_frame
  /\ UNCHANGED lifecycle_vars

\* variant: Logs::run hands its own Sender on, so one sender outlives the
\* fetchers
senders_kept(fetch) == FALSE

\* Logs::run, lines 43-56: every fetcher owns a clone of tx and tx itself is
\* dropped when run returns; the senders are all dropped once every fetcher
\* has returned
senders_dropped(fetch) == \A n \in DOMAIN fetch : fetch[n].pc = "done"

\* Logs::exec, lines 63-69: rx.recv() yields None once every sender is
\* dropped and the channel is empty; the fetchers are joined
ExecReturn ==
  /\ logs.pc = "running"
  /\ logs.chan = <<>>
  /\ senders_dropped(logs.fetch)
  /\ logs.caller = "test" => stopped_and_joined
  /\ logs' = [logs EXCEPT !.pc = "done"]
  /\ UNCHANGED logs_frame
  /\ UNCHANGED lifecycle_vars

\* Pueue::stop, lines 249-262, in the test: the client is locked for the
\* Kill request and its response, and the task ends
TestStopKill(n) ==
  /\ n \in logs.selected
  /\ logs.pc = "running"
  /\ logs.caller = "test"
  /\ logs.stop = "none"
  /\ logs.task[n].pid = "some"
  /\ logs.lock = NoStack
  /\ logs' = [logs EXCEPT !.stop = "killed", !.task[n].ended = TRUE]
  /\ UNCHANGED logs_frame
  /\ UNCHANGED lifecycle_vars

\* Pueue::stop, lines 263-266: process_status locks the client again and
\* reports the task Done
TestStopPoll ==
  /\ logs.pc = "running"
  /\ logs.stop = "killed"
  /\ logs.lock = NoStack
  /\ logs' = [logs EXCEPT !.stop = "done"]
  /\ UNCHANGED logs_frame
  /\ UNCHANGED lifecycle_vars

\* Stop::exec finds no process with a pid: no scheduler call is made
TestStopSkip ==
  /\ logs.pc = "running"
  /\ logs.caller = "test"
  /\ logs.stop = "none"
  /\ \A n \in logs.selected : logs.task[n].pid # "some"
  /\ logs' = [logs EXCEPT !.stop = "skipped"]
  /\ UNCHANGED logs_frame
  /\ UNCHANGED lifecycle_vars

\* the process of a task writes a line
TaskWrites(n) ==
  /\ n \in logs.selected
  /\ logs.pc # "idle"
  /\ logs.task[n].pid = "some"
  /\ ~logs.task[n].ended
  /\ logs.task[n].len < MaxLines
  /\ logs' = [logs EXCEPT !.task[n].len = @ + 1]
  /\ UNCHANGED logs_frame
  /\ UNCHANGED lifecycle_vars

\* the process of a task ends
TaskEnds(n) ==
  /\ n \in logs.selected
  /\ logs.pc # "idle"
  /\ logs.task[n].pid = "some"
  /\ ~logs.task[n].ended
  /\ logs' = [logs EXCEPT !.task[n].ended = TRUE]
  /\ UNCHANGED logs_frame
  /\ UNCHANGED lifecycle_vars

NextLogs ==
  \/ LogsRun
  \/ \E n \in ProcessNames : FetchBegin(n)
  \/ \E n \in ProcessNames : FetchSend(n)
  \/ \E n \in ProcessNames : LogReturn(n)
  \/ \E n \in ProcessNames, response \in {"Stream", "Close", "Failure"} :
       StreamReceive(n, response)
  \/ \E n \in ProcessNames : FetchReturn(n)
  \/ Recv
  \/ ExecReturn
  \/ \E n \in ProcessNames : TestStopKill(n)
  \/ TestStopPoll
  \/ TestStopSkip
  \/ \E n \in ProcessNames : TaskWrites(n)
  \/ \E n \in ProcessNames : TaskEnds(n)

SpecLogs == InitLogs /\ [][NextLogs]_vars

\* the tokio runtime lets every spawned fetcher and the consumer run: a step
\* of the program that stays possible is taken; the tasks write and end as
\* they please
FairLogs ==
  /\ WF_vars(LogsRun)
  /\ WF_vars(Recv)
  /\ WF_vars(ExecReturn)
  /\ WF_vars(\E n \in ProcessNames : TestStopKill(n))
  /\ WF_vars(TestStopPoll)
  /\ WF_vars(TestStopSkip)
  /\ \A n \in ProcessNames :
       /\ WF_vars(FetchBegin(n))
       /\ WF_vars(FetchSend(n))
       /\ WF_vars(LogReturn(n))
       /\ WF_vars(FetchReturn(n))
       /\ WF_vars(\E response \in {"Stream", "Close", "Failure"} :
                    StreamReceive(n, response))

SpecLogsFair == SpecLogs /\ FairLogs

\* ------------------------------------------------- properties of the logs
\* the line numbers of process n in a sequence of messages, in order
RECURSIVE LinesOf(_, _)
LinesOf(messages, n) ==
  IF messages = <<>> THEN <<>>
  ELSE IF Head(messages)[1] = n
    THEN <<Head(messages)[2]>> \o LinesOf(Tail(messages), n)
    ELSE LinesOf(Tail(messages), n)

\* the lines the fetcher of n has sent so far: lines 1..cursor of the log
SentBy(n) == [k \in 1..logs.fetch[n].cursor |-> k]

\* C24: for any interleaving of the fetchers and the consumer, what the
\* consumer has received from a process followed by what the channel still
\* holds of it is exactly the sequence of lines its fetcher sent, in order,
\* nothing dropped or duplicated, and all of it is received when exec
\* returns; the channel never holds more than 2 * |selected| lines, a
\* fetcher waits while it is full.
C24_LogFanIn ==
  logs.pc \in {"running", "done"} =>
    /\ Len(logs.chan) <= 2 * Cardinality(logs.selected)
    /\ \A n \in logs.selected :
         /\ LinesOf(logs.printed \o logs.chan, n) = SentBy(n)
         /\ logs.pc = "done" => LinesOf(logs.printed, n) = SentBy(n)

\* C24 witness: two fetchers stream, the consumer has received a line, the
\* channel is full with lines of both in an order that is not the order of
\* the processes, and a fetcher with a line left to send waits
C24_Witness ==
  /\ logs.pc = "running"
  /\ logs.selected = ProcessNames
  /\ logs.printed # <<>>
  /\ Len(logs.chan) = 4
  /\ logs.chan[1][1] # logs.chan[2][1]
  /\ logs.chan[2][1] # logs.chan[3][1]
  /\ \E n \in logs.selected :
       /\ logs.fetch[n].pc \in {"log", "stream"}
       /\ logs.fetch[n].cursor < logs.fetch[n].upto

\* Logs::exec has returned and every line a fetcher was given is printed
AllPrinted ==
  /\ logs.pc = "done"
  /\ \A n \in logs.selected :
       /\ logs.fetch[n].pc = "done"
       /\ logs.fetch[n].res = "Ok" => logs.fetch[n].cursor = logs.fetch[n].upto
       /\ LinesOf(logs.printed, n) = SentBy(n)

\* C36: logs with follow = false terminates: every fetcher returns once
\* the history of its process is sent, the channel closes when the last
\* fetcher has returned, and Logs::exec returns after printing every line,
\* whatever the number of lines and whichever fetcher fails.
C36_NoFollowTerminates ==
  (logs.pc = "running" /\ logs.caller = "exec" /\ ~logs.follow) ~> AllPrinted

\* C36 witness: logs without follow on one process has returned after
\* printing more lines than the channel holds
C36_Witness ==
  /\ logs.pc = "done"
  /\ logs.caller = "exec"
  /\ ~logs.follow
  /\ Cardinality(logs.selected) = 1
  /\ Len(logs.printed) > 2 * Cardinality(logs.selected)

\* a fetcher waits for room in the channel with a line to send
Blocked(n) ==
  /\ logs.fetch[n].pc \in {"log", "stream"}
  /\ logs.task[n].pid = "some"
  /\ logs.fetch[n].cursor < logs.fetch[n].upto
  /\ ~has_permit(logs.chan)

\* C39: a log fetch without follow that runs next to a stop cannot
\* deadlock: a fetcher that waits on the full channel does not hold the
\* scheduler's primary connection, so a stop issued after Logs::run has
\* spawned the fetchers and before the consumer receives (the order of the
\* lifecycle tests) is never left waiting for it.
C39_BlockedFetcherHoldsNoLock ==
  (logs.pc = "running" /\ ~logs.follow) =>
    \A n \in logs.selected :
      Blocked(n) =>
        /\ logs.lock # n
        /\ ~(logs.caller = "test" /\ logs.stop \in {"none", "killed"})

\* C25: logs with tail = true prints none of the lines the log held when it
\* was called and, when follow is set too, still prints the lines the
\* process writes afterwards, until the stream is closed.
C25_TailStreamsNewLines ==
  logs.tail =>
    /\ \A i \in 1..Len(logs.printed) :
         logs.printed[i][2] > logs.task[logs.printed[i][1]].history
    /\ \A n \in logs.selected :
         (logs.follow /\ logs.task[n].pid = "some" /\ logs.pc = "done") =>
           /\ logs.task[n].ended
           /\ LinesOf(logs.printed, n) =
                [k \in 1..(logs.task[n].len - logs.task[n].history) |->
                   logs.task[n].history + k]

\* ===================================================================
\* The functions: State::new's project directory, envsubst, and the
\* state of a process as seen from the state of its task
\* ===================================================================
MaxPieces == 2   \* pieces (text or placeholder) of a value given to envsubst

\* a path is the sequence of its components; an absolute one starts at "/"
Cwds == {<<"/", "w">>, <<"/", "w", "sub">>}

\* target_dir as the caller gives it: omitted, relative or absolute
NoPath == <<>>
TargetDirs ==
  {NoPath, <<".">>, <<"sub">>, <<"..">>, <<"/", "w">>, <<"/", "w", "sub">>,
   <<"/", "w", "sub", "..">>, <<"/", "w", ".", "sub">>}

\* std::fs::canonicalize: the absolute path with "." and ".." resolved,
\* relative paths taken from the current directory
RECURSIVE canonicalize_from(_, _)
canonicalize_from(base, path) ==
  IF path = <<>> THEN base
  ELSE LET c == Head(path)
           next == IF c = "." THEN base
                   ELSE IF c = ".."
                     THEN (IF Len(base) > 1
                             THEN SubSeq(base, 1, Len(base) - 1) ELSE base)
                   ELSE Append(base, c)
       IN canonicalize_from(next, Tail(path))

canonicalize(cwd, path) ==
  IF path # <<>> /\ Head(path) = "/"
    THEN canonicalize_from(<<"/">>, Tail(path))
    ELSE canonicalize_from(cwd, path)

target_dir_canonical(cwd, given) ==
  canonicalize(cwd, IF given = NoPath THEN <<".">> ELSE given)

\* State::new: target_dir.map(Into::into).unwrap_or(canonicalize(".")?)
target_dir(cwd, given) ==
  IF given = NoPath THEN canonicalize(cwd, <<".">>) ELSE given

\* get_or_create_project_dir: the hex of DefaultHasher over the path it is
\* handed, component by component; two paths hash alike when they are the
\* same sequence of components
hashed_pwd(pwd) == [hex_of |-> pwd]

\* {state_dir}/jocker/{hashed_pwd}
project_dir(pwd) == <<"state_dir", "jocker", hashed_pwd(pwd)>>

\* init_or_get_group: jocker-{project_id}
group(project_id) == <<"jocker-", project_id>>

\* the text of a piece of a value: plain text, ${NAME} or ${NAME:-default}
VarNames == {<<"F">>, <<"G">>}
Pieces ==
  [kind : {"text"}, text : {<<"x">>, <<"x", " ">>}]
    \cup [kind : {"var"}, name : VarNames]
    \cup [kind : {"var_default"}, name : VarNames, default : {<<"b">>}]

PieceText(piece) ==
  CASE piece.kind = "text" -> piece.text
    [] piece.kind = "var" -> <<"$", "{">> \o piece.name \o <<"}">>
    [] OTHER -> <<"$", "{">> \o piece.name \o <<":", "-">> \o piece.default
                  \o <<"}">>

RECURSIVE ValueOf(_)
ValueOf(pieces) ==
  IF pieces = <<>> THEN <<>>
  ELSE PieceText(Head(pieces)) \o ValueOf(Tail(pieces))

\* the environments: each of the names is missing, empty or set
EnvValues == {<<>>, <<"B">>}
Envs == UNION {[D -> EnvValues] : D \in SUBSET VarNames}

\* the character class of ENVSUBST_REGEX: [a-zA-Z0-9-_:/.\[\]]
RegexClass == {"F", "G", "B", "b", "x", ":", "-"}

\* the first position from i on whose character is outside the class
RECURSIVE class_end(_, _)
class_end(value, i) ==
  IF i > Len(value) \/ value[i] \notin RegexClass THEN i
  ELSE class_end(value, i + 1)

\* \$\{([a-zA-Z0-9-_:/.\[\]]*)} matches at i
matches_at(value, i) ==
  /\ i + 1 <= Len(value)
  /\ value[i] = "$"
  /\ value[i + 1] = "{"
  /\ class_end(value, i + 2) <= Len(value)
  /\ value[class_end(value, i + 2)] = "}"

\* the position of the leftmost match from i on, 0 when there is none
RECURSIVE next_match(_, _)
next_match(value, i) ==
  IF i > Len(value) THEN 0
  ELSE IF matches_at(value, i) THEN i
  ELSE next_match(value, i + 1)

\* name.split(":-")
RECURSIVE split(_)
split(name) ==
  LET at == CHOOSE i \in 1..(Len(name) + 1) :
              /\ i = Len(name) + 1
                   \/ (i < Len(name) /\ name[i] = ":" /\ name[i + 1] = "-")
              /\ \A j \in 1..(i - 1) :
                   ~(j < Len(name) /\ name[j] = ":" /\ name[j + 1] = "-")
  IN IF at > Len(name) THEN <<name>>
     ELSE <<SubSeq(name, 1, at - 1)>>
            \o split(SubSeq(name, at + 2, Len(name)))

\* env.get(&var_name).or(default).unwrap_or_default()
var_value(name, env) ==
  LET parts == split(name)
      var_name == parts[1]
  IN IF var_name \in DOMAIN env THEN env[var_name]
     ELSE IF Len(parts) >= 2 THEN parts[2]
     ELSE <<>>

\* the loop over re.captures_iter(value) and the copy of the rest
RECURSIVE envsubst_from(_, _, _, _)
envsubst_from(value, env, last_range_end, ret) ==
  LET start == next_match(value, last_range_end + 1) IN
  IF start = 0
    THEN IF last_range_end # Len(value)
           THEN ret \o SubSeq(value, last_range_end + 1, Len(value))
           ELSE ret
    ELSE LET close == class_end(value, start + 2)
             name == SubSeq(value, start + 2, close - 1)
             copied == IF start - 1 # 0
                         THEN ret \o SubSeq(value, last_range_end + 1,
                                            start - 1)
                         ELSE ret
         IN envsubst_from(value, env, close,
                          copied \o var_value(name, env))

envsubst(value, env) == envsubst_from(value, env, 0, <<>>)

\* the states pueue_lib gives a task
ForeignStates == TaskStatus \cup {"Locked", "Stashed"}

\* the state of a process for the state of its task: Running for Running,
\* Stopped for Paused and Done; for the other states the result is some
\* ProcessState
process_states_of(status) ==
  CASE status = "Running" -> {"Running"}
    [] status \in {"Paused", "Done"} -> {"Stopped"}
    [] OTHER -> ProcessState

InitPure ==
  /\ LifecycleIdle
  /\ processes = InitProcesses
  /\ current_stack = NoStack
  /\ ps = NoPs
  /\ db = EmptyDb
  /\ call = NoCall
  /\ resolver = NoResolver
  /\ refresh = NoRefresh
  /\ pueue = NoPueue
  /\ logs = NoLogs
  /\ locks = NoLocks
  /\ \/ \E cwd \in Cwds, first \in TargetDirs, second \in TargetDirs :
          pure = [fn |-> "State::new", pc |-> "input", cwd |-> cwd,
                  given |-> <<first, second>>, built |-> {},
                  project_dir |-> <<NoPath, NoPath>>,
                  group |-> <<NoPath, NoPath>>]
     \/ \E k \in 1..MaxPieces :
          \E pieces \in [1..k -> Pieces], env \in Envs :
            pure = [fn |-> "envsubst", pc |-> "input", pieces |-> pieces,
                    env |-> env, ret |-> <<>>]
     \/ \E status \in ForeignStates :
          pure = [fn |-> "ProcessState::from", pc |-> "input",
                  status |-> status, state |-> "Stopped"]

pure_frame == <<processes, current_stack, ps, db, call, resolver, refresh,
                pueue, logs, locks>>

\* State::new(_, _, target_dir) in the current directory cwd: the project
\* directory and the scheduler group it arrives at
StateNew(i) ==
  /\ pure.fn = "State::new"
  /\ i \notin pure.built
  /\ LET pwd == target_dir(pure.cwd, pure.given[i]) IN
       pure' = [pure EXCEPT
                  !.built = @ \cup {i},
                  !.pc = IF pure.built \cup {i} = {1, 2}
                          THEN "done" ELSE "input",
                  !.project_dir[i] = project_dir(pwd),
                  !.group[i] = group(hashed_pwd(pwd))]
  /\ UNCHANGED pure_frame
  /\ UNCHANGED lifecycle_vars

\* envsubst(value, env)
Envsubst ==
  /\ pure.fn = "envsubst"
  /\ pure.pc = "input"
  /\ pure' = [pure EXCEPT !.pc = "done",
                          !.ret = envsubst(ValueOf(pure.pieces), pure.env)]
  /\ UNCHANGED pure_frame
  /\ UNCHANGED lifecycle_vars

\* the state reported for a task in the given state
ProcessStateFrom ==
  /\ pure.fn = "ProcessState::from"
  /\ pure.pc = "input"
  /\ \E state \in process_states_of(pure.status) :
       pure' = [pure EXCEPT !.pc = "done", !.state = state]
  /\ UNCHANGED pure_frame
  /\ UNCHANGED lifecycle_vars

NextPure ==
  \/ \E i \in {1, 2} : StateNew(i)
  \/ Envsubst
  \/ ProcessStateFrom

SpecPure == InitPure /\ [][NextPure]_vars

\* ------------------------------------------- properties of the functions
\* C27: two State constructions whose workspace_dir arguments denote the
\* same directory (relative, absolute, or omitted in that directory) obtain
\* the same project id, hence the same state directory and scheduler group.
C27_ProjectIdOfCanonicalPath ==
  (pure.fn = "State::new" /\ pure.pc = "done"
     /\ target_dir_canonical(pure.cwd, pure.given[1])
          = target_dir_canonical(pure.cwd, pure.given[2])) =>
    /\ pure.project_dir[1] = pure.project_dir[2]
    /\ pure.group[1] = pure.group[2]

\* what the placeholder grammar asks of a piece
Expected(piece, env) ==
  CASE piece.kind = "text" -> piece.text
    [] piece.kind = "var" ->
         IF piece.name \in DOMAIN env THEN env[piece.name] ELSE <<>>
    [] OTHER ->
         IF piece.name \in DOMAIN env /\ env[piece.name] # <<>>
           THEN env[piece.name] ELSE piece.default

RECURSIVE ExpectedOf(_, _)
ExpectedOf(pieces, env) ==
  IF pieces = <<>> THEN <<>>
  ELSE Expected(Head(pieces), env) \o ExpectedOf(Tail(pieces), env)

\* C28: envsubst replaces ${NAME:-default} by env[NAME] when NAME is present
\* with a non-empty value and by default when NAME is missing or empty,
\* ${NAME} by env[NAME] or the empty string, and copies the text outside
\* placeholders verbatim.
C28_Envsubst ==
  (pure.fn = "envsubst" /\ pure.pc = "done") =>
    pure.ret = ExpectedOf(pure.pieces, pure.env)

\* C29: the state of a task maps to Running for Running, to Stopped for
\* Paused and Done and to Unknown for every other state; a process is never
\* reported Stopped for a state other than Paused or Done.
C29_StateMapping ==
  (pure.fn = "ProcessState::from" /\ pure.pc = "done") =>
    /\ pure.state =
         CASE pure.status = "Running" -> "Running"
           [] pure.status \in {"Paused", "Done"} -> "Stopped"
           [] OTHER -> "Unknown"
    /\ pure.state = "Stopped" => pure.status \in {"Paused", "Done"}


\* ========================================== the mutexes of State and Store
MaxThreads == 2   \* tasks that use the State at the same time

Threads == 1..MaxThreads

\* Database::connection (database.rs, line 423) and State::current_stack
\* (state.rs, line 86)
Mutexes == {"connection", "current_stack"}

\* the steps of a task that matter for waiting: lock and unlock of a mutex,
\* and the call of the scheduler client that is awaited
Lock(m) == <<"lock", m>>
Unlock(m) == <<"unlock", m>>
Scheduler == <<"await", "scheduler">>

\* a method of Database: get_db locks the connection, the guard is dropped
\* when the method returns
get_db == <<Lock("connection"), Unlock("connection")>>

\* State::get_current_stack: the guard lives for the one statement
get_current_stack_locks == <<Lock("current_stack"), Unlock("current_stack")>>

\* variant: the names are read with the connection already locked
set_stacks_locks_held ==
  <<Lock("connection")>> \o get_db \o <<Unlock("connection")>>

\* Database::set_stacks: get_processes runs and returns before get_db
set_stacks_locks == get_db \o get_db

\* State::set_current_stack: the value, get_stack or get_default_stack, is
\* evaluated before the place, so the cell is locked after the store call
\* has returned, for the assignment alone
set_current_stack_locks == get_db \o get_current_stack_locks

\* State::filter_processes: get_current_stack, then get_stack when no name
\* is given and a stack is current, then get_processes
filter_processes_locks(named, stack) ==
  get_current_stack_locks \o (IF ~named /\ stack THEN get_db ELSE <<>>) \o get_db

\* Start::exec for one process: filter_processes, Building stored, the
\* build, Pueue::start, then Running and the pid stored
start_locks(named, stack) ==
  filter_processes_locks(named, stack) \o get_db \o <<Scheduler>> \o get_db
    \o get_db

\* Stop::exec for one process: filter_processes, Pueue::stop when the
\* process has a pid, then Stopped and no pid stored
stop_locks(named, stack, pid) ==
  filter_processes_locks(named, stack) \o (IF pid THEN <<Scheduler>> ELSE <<>>)
    \o get_db \o get_db

\* Logs::run for one process: filter_processes, then Pueue::logs
logs_locks(named, stack) == filter_processes_locks(named, stack) \o <<Scheduler>>

\* the operations a task may run, with the branches they take
Operations ==
  {[op |-> "set_stacks", steps |-> set_stacks_locks],
   [op |-> "set_current_stack", steps |-> set_current_stack_locks]}
  \cup {[op |-> "filter", steps |-> filter_processes_locks(n, s)] :
          n \in BOOLEAN, s \in BOOLEAN}
  \cup {[op |-> "start", steps |-> start_locks(n, s)] :
          n \in BOOLEAN, s \in BOOLEAN}
  \cup {[op |-> "stop", steps |-> stop_locks(n, s, p)] :
          n \in BOOLEAN, s \in BOOLEAN, p \in BOOLEAN}
  \cup {[op |-> "logs", steps |-> logs_locks(n, s)] :
          n \in BOOLEAN, s \in BOOLEAN}

InitLocks ==
  /\ LifecycleIdle
  /\ processes = InitProcesses
  /\ current_stack = NoStack
  /\ ps = NoPs
  /\ db = EmptyDb
  /\ call = NoCall
  /\ resolver = NoResolver
  /\ refresh = NoRefresh
  /\ pueue = NoPueue
  /\ logs = NoLogs
  /\ pure = NoPure
  /\ locks = [holder |-> [m \in Mutexes |-> 0],
              task |-> [t \in Threads |->
                          [op |-> "none", steps |-> <<>>, held |-> {}]]]

locks_frame == <<processes, current_stack, ps, db, call, resolver, refresh,
                 pueue, logs, pure>>

\* the step task t is at
NextStep(t) == Head(locks.task[t].steps)

\* a task calls an operation of the State
LockCall(t, operation) ==
  /\ locks.task[t].steps = <<>>
  /\ locks' = [locks EXCEPT !.task[t] = [op |-> operation.op,
                                         steps |-> operation.steps,
                                         held |-> {}]]
  /\ UNCHANGED locks_frame
  /\ UNCHANGED lifecycle_vars

\* Mutex::lock: the task goes on once the mutex is free; std's mutex is not
\* reentrant, a task that holds it already waits for ever
Acquire(t) ==
  /\ locks.task[t].steps # <<>>
  /\ NextStep(t)[1] = "lock"
  /\ locks.holder[NextStep(t)[2]] = 0
  /\ locks' = [locks EXCEPT !.holder[NextStep(t)[2]] = t,
                            !.task[t].held = @ \cup {NextStep(t)[2]},
                            !.task[t].steps = Tail(@)]
  /\ UNCHANGED locks_frame
  /\ UNCHANGED lifecycle_vars

\* the guard is dropped
Release(t) ==
  /\ locks.task[t].steps # <<>>
  /\ NextStep(t)[1] = "unlock"
  /\ locks' = [locks EXCEPT !.holder[NextStep(t)[2]] = 0,
                            !.task[t].held = @ \ {NextStep(t)[2]},
                            !.task[t].steps = Tail(@)]
  /\ UNCHANGED locks_frame
  /\ UNCHANGED lifecycle_vars

\* the awaited call of the scheduler client returns
SchedulerReturns(t) ==
  /\ locks.task[t].steps # <<>>
  /\ NextStep(t)[1] = "await"
  /\ locks' = [locks EXCEPT !.task[t].steps = Tail(@)]
  /\ UNCHANGED locks_frame
  /\ UNCHANGED lifecycle_vars

NextLocks ==
  \/ \E t \in Threads, operation \in Operations : LockCall(t, operation)
  \/ \E t \in Threads : Acquire(t)
  \/ \E t \in Threads : Release(t)
  \/ \E t \in Threads : SchedulerReturns(t)

SpecLocks == InitLocks /\ [][NextLocks]_vars

\* task t can take its next step
CanStep(t) ==
  \/ locks.task[t].steps = <<>>
  \/ NextStep(t)[1] # "lock"
  \/ locks.holder[NextStep(t)[2]] = 0

\* C35: no task waits for the store mutex while it holds it (set_stacks_locks has
\* released it after reading the process names), no task holds the store
\* mutex or the current-stack mutex while it waits for a mutex or for a
\* call of the scheduler client, and so among concurrent start, stop, logs,
\* filter, set_stacks_locks and set_current_stack_locks some task can always go on.
C35_NoLockHeldWhileWaiting ==
  /\ \A t \in Threads :
       (locks.task[t].steps # <<>> /\ NextStep(t)[1] \in {"lock", "await"})
         => locks.task[t].held = {}
  /\ \E t \in Threads : CanStep(t)

\* C35 witness: task 1 is in set_stacks_locks between its two critical sections
\* and waits for the connection, which task 2 holds to store the state
\* after its call of the scheduler client
C35_Witness ==
  /\ locks.task[1].op = "set_stacks"
  /\ Len(locks.task[1].steps) = 2
  /\ locks.holder["connection"] = 2
  /\ locks.task[2].op = "start"
  /\ Len(locks.task[2].steps) = 3

====
